---------------------------- MODULE Spec2Model ----------------------------
(***************************************************************************)
(* A model of scripts/validate-openapi.js: validateOpenAPISpec (root       *)
(* checks, component schemas, paths and operations, tag consistency) and   *)
(* calculateStats, run by the script's main block on one parsed document.  *)
(* Spec is that run, one step per phase; SpecCalls is two calls of the     *)
(* functions made side by side; SpecWalk is one walk of validateSchema     *)
(* followed call by call.                                                  *)
(*                                                                         *)
(* JavaScript values are represented as follows.                           *)
(*   - an optional property is a sequence of length 0 (absent, undefined)  *)
(*     or 1 (present);                                                     *)
(*   - a mapping (a JS object) is the sequence of its entries in the       *)
(*     order Object.entries enumerates them;                               *)
(*   - a string the code inspects character by character (the version,    *)
(*     path names, path-item keys, status codes) is a sequence of          *)
(*     one-character strings; Str joins it into the text of a message;     *)
(*   - any other string is a TLA+ string.                                  *)
(***************************************************************************)
EXTENDS Integers, Sequences, FiniteSets, TLC

(***************************************************************************)
(* Optional values.                                                        *)
(***************************************************************************)
None == <<>>

Some(v) == <<v>>

Has(o) == o # <<>>

Get(o) == o[1]

(***************************************************************************)
(* Sequences.                                                              *)
(***************************************************************************)
RECURSIVE Flatten(_)
Flatten(ss) == IF ss = <<>> THEN <<>> ELSE Head(ss) \o Flatten(Tail(ss))

Count(s, x) == Cardinality({i \in 1..Len(s) : s[i] = x})

Range(s) == {s[i] : i \in 1..Len(s)}

Contains(s, x) == \E i \in 1..Len(s) : s[i] = x

\* Set.prototype.add over a sequence of values: a Set keeps the first
\* insertion of each value and iterates in insertion order.
RECURSIVE SetOf(_)
SetOf(s) ==
  IF s = <<>> THEN <<>>
  ELSE LET front == SetOf(SubSeq(s, 1, Len(s) - 1))
           last == s[Len(s)]
       IN IF Contains(front, last) THEN front ELSE Append(front, last)

(***************************************************************************)
(* Characters and strings.                                                 *)
(***************************************************************************)
Digits == {"0", "1", "2", "3", "4", "5", "6", "7", "8", "9"}

LowerLetters ==
  <<"a", "b", "c", "d", "e", "f", "g", "h", "i", "j", "k", "l", "m",
    "n", "o", "p", "q", "r", "s", "t", "u", "v", "w", "x", "y", "z">>

UpperLetters ==
  <<"A", "B", "C", "D", "E", "F", "G", "H", "I", "J", "K", "L", "M",
    "N", "O", "P", "Q", "R", "S", "T", "U", "V", "W", "X", "Y", "Z">>

\* The characters of the model in ascending order of UTF-16 code unit.
CodeUnits ==
  <<"-", ".", "/", "0", "1", "2", "3", "4", "5", "6", "7", "8", "9">>
  \o UpperLetters \o LowerLetters

CodeOf(c) == CHOOSE i \in 1..Len(CodeUnits) : CodeUnits[i] = c

RECURSIVE Str(_)
Str(cs) == IF cs = <<>> THEN "" ELSE Head(cs) \o Str(Tail(cs))

LowerChar(c) ==
  IF \E i \in 1..Len(UpperLetters) : UpperLetters[i] = c
  THEN LowerLetters[CHOOSE i \in 1..Len(UpperLetters) : UpperLetters[i] = c]
  ELSE c

UpperChar(c) ==
  IF \E i \in 1..Len(LowerLetters) : LowerLetters[i] = c
  THEN UpperLetters[CHOOSE i \in 1..Len(LowerLetters) : LowerLetters[i] = c]
  ELSE c

toLowerCase(cs) == [i \in 1..Len(cs) |-> LowerChar(cs[i])]

toUpperCase(cs) == [i \in 1..Len(cs) |-> UpperChar(cs[i])]

startsWith(cs, c) == Len(cs) >= 1 /\ cs[1] = c

\* a < b in the order Array.prototype.sort uses without a comparator:
\* code unit by code unit, a proper prefix first.
RECURSIVE LexLess(_, _)
LexLess(a, b) ==
  IF b = <<>> THEN FALSE
  ELSE IF a = <<>> THEN TRUE
  ELSE IF Head(a) # Head(b) THEN CodeOf(Head(a)) < CodeOf(Head(b))
  ELSE LexLess(Tail(a), Tail(b))

RECURSIVE join(_, _)
join(ss, sep) ==
  IF ss = <<>> THEN ""
  ELSE IF Len(ss) = 1 THEN ss[1]
  ELSE ss[1] \o sep \o join(Tail(ss), sep)

\* !value for a string-valued optional property: undefined and "" are falsy.
TruthyText(o) == Has(o) /\ Get(o) # ""

TruthyChars(o) == Has(o) /\ Get(o) # <<>>

(***************************************************************************)
(* Schema nodes.  kind is "object" for a mapping and "scalar" for a value  *)
(* validateSchema returns on at once (a string, a number).  A type value   *)
(* carries what typeof gives for it and its text: a sequence of type names *)
(* has jsType "object".                                                    *)
(***************************************************************************)
StringType(t) == [jsType |-> "string", text |-> t]

ListType(t) == [jsType |-> "object", text |-> t]

SchemaNode(type, properties, items, oneOf, allOf, anyOf) ==
  [kind |-> "object", type |-> type, ref |-> None, properties |-> properties,
   items |-> items, oneOf |-> oneOf, allOf |-> allOf, anyOf |-> anyOf]

Leaf(type) == SchemaNode(type, None, None, None, None, None)

RefNode(target) == [Leaf(None) EXCEPT !.ref = Some(target)]

ScalarSchema == [Leaf(None) EXCEPT !.kind = "scalar"]

Prop(name, schema) == [name |-> name, schema |-> schema]

(***************************************************************************)
(* validateTypeField and validateSchema, as the sequence of messages each  *)
(* call pushes onto errors (neither pushes a warning; no caller reads the  *)
(* boolean validateTypeField returns).                                     *)
(***************************************************************************)
validTypes == <<"array", "boolean", "integer", "number", "object", "string">>

\* validateTypeField without the branch for "null".
validateTypeField_NoNullCase(value, path) ==
  IF value.jsType = "string" /\ ~Contains(validTypes, value.text)
  THEN <<"Invalid type \"" \o value.text \o "\" at " \o path
         \o ". Must be one of: " \o join(validTypes, ", ")>>
  ELSE <<>>

\* validateTypeField without the test that the value is a string.
validateTypeField_AnyValue(value, path) ==
  IF value.jsType = "string" /\ value.text = "null"
  THEN <<"Invalid type \"null\" at " \o path
         \o ". Use \"nullable: true\" instead.">>
  ELSE IF ~(value.jsType = "string" /\ Contains(validTypes, value.text))
  THEN <<"Invalid type \"" \o value.text \o "\" at " \o path
         \o ". Must be one of: " \o join(validTypes, ", ")>>
  ELSE <<>>

validateTypeField(value, path) ==
  IF value.jsType = "string" /\ value.text = "null"
  THEN <<"Invalid type \"null\" at " \o path
         \o ". Use \"nullable: true\" instead.">>
  ELSE IF value.jsType = "string" /\ ~Contains(validTypes, value.text)
  THEN <<"Invalid type \"" \o value.text \o "\" at " \o path
         \o ". Must be one of: " \o join(validTypes, ", ")>>
  ELSE <<>>

\* The path of a child of the node at path.
\* propertyPath without the "properties" segment.
propertyPath_NoKeyword(path, propName) == path \o "." \o propName

propertyPath(path, propName) == path \o ".properties." \o propName

itemsPath(path) == path \o ".items"

\* compositionPath numbering the elements from one.
compositionPath_OneBased(path, keyword, index) ==
  path \o "." \o keyword \o "[" \o ToString(index + 1) \o "]"

compositionPath(path, keyword, index) ==
  path \o "." \o keyword \o "[" \o ToString(index) \o "]"

RECURSIVE validateSchema(_, _)
\* validateSchema walking only the first of the five keys a node holds.
validateSchema_Exclusive(schema, path) ==
  IF schema.kind # "object" THEN <<>>
  ELSE
    (IF Has(schema.type) THEN validateTypeField(Get(schema.type), path)
     ELSE <<>>)
    \o (IF Has(schema.properties)
        THEN Flatten([i \in 1..Len(Get(schema.properties)) |->
               validateSchema(Get(schema.properties)[i].schema,
                 propertyPath(path, Get(schema.properties)[i].name))])
        ELSE IF Has(schema.items)
        THEN validateSchema(Get(schema.items), itemsPath(path))
        ELSE IF Has(schema.oneOf)
        THEN Flatten([i \in 1..Len(Get(schema.oneOf)) |->
               validateSchema(Get(schema.oneOf)[i],
                 compositionPath(path, "oneOf", i - 1))])
        ELSE IF Has(schema.allOf)
        THEN Flatten([i \in 1..Len(Get(schema.allOf)) |->
               validateSchema(Get(schema.allOf)[i],
                 compositionPath(path, "allOf", i - 1))])
        ELSE IF Has(schema.anyOf)
        THEN Flatten([i \in 1..Len(Get(schema.anyOf)) |->
               validateSchema(Get(schema.anyOf)[i],
                 compositionPath(path, "anyOf", i - 1))])
        ELSE <<>>)

validateSchema(schema, path) ==
  IF schema.kind # "object" THEN <<>>
  ELSE
    (IF Has(schema.type) THEN validateTypeField(Get(schema.type), path)
     ELSE <<>>)
    \o (IF Has(schema.properties)
        THEN Flatten([i \in 1..Len(Get(schema.properties)) |->
               validateSchema(Get(schema.properties)[i].schema,
                 propertyPath(path, Get(schema.properties)[i].name))])
        ELSE <<>>)
    \o (IF Has(schema.items)
        THEN validateSchema(Get(schema.items), itemsPath(path))
        ELSE <<>>)
    \o (IF Has(schema.oneOf)
        THEN Flatten([i \in 1..Len(Get(schema.oneOf)) |->
               validateSchema(Get(schema.oneOf)[i],
                 compositionPath(path, "oneOf", i - 1))])
        ELSE <<>>)
    \o (IF Has(schema.allOf)
        THEN Flatten([i \in 1..Len(Get(schema.allOf)) |->
               validateSchema(Get(schema.allOf)[i],
                 compositionPath(path, "allOf", i - 1))])
        ELSE <<>>)
    \o (IF Has(schema.anyOf)
        THEN Flatten([i \in 1..Len(Get(schema.anyOf)) |->
               validateSchema(Get(schema.anyOf)[i],
                 compositionPath(path, "anyOf", i - 1))])
        ELSE <<>>)

\* The recursive calls validateSchema(schema, path) makes, in order, each
\* as the schema and the path it hands over.
\* recursiveCalls without the call for items.
recursiveCalls_NoItems(schema, path) ==
  IF schema.kind # "object" THEN <<>>
  ELSE
    (IF Has(schema.properties)
     THEN [i \in 1..Len(Get(schema.properties)) |->
            [schema |-> Get(schema.properties)[i].schema,
             path |-> propertyPath(path, Get(schema.properties)[i].name)]]
     ELSE <<>>)
    \o (IF Has(schema.oneOf)
        THEN [i \in 1..Len(Get(schema.oneOf)) |->
               [schema |-> Get(schema.oneOf)[i],
                path |-> compositionPath(path, "oneOf", i - 1)]]
        ELSE <<>>)
    \o (IF Has(schema.allOf)
        THEN [i \in 1..Len(Get(schema.allOf)) |->
               [schema |-> Get(schema.allOf)[i],
                path |-> compositionPath(path, "allOf", i - 1)]]
        ELSE <<>>)
    \o (IF Has(schema.anyOf)
        THEN [i \in 1..Len(Get(schema.anyOf)) |->
               [schema |-> Get(schema.anyOf)[i],
                path |-> compositionPath(path, "anyOf", i - 1)]]
        ELSE <<>>)

recursiveCalls(schema, path) ==
  IF schema.kind # "object" THEN <<>>
  ELSE
    (IF Has(schema.properties)
     THEN [i \in 1..Len(Get(schema.properties)) |->
            [schema |-> Get(schema.properties)[i].schema,
             path |-> propertyPath(path, Get(schema.properties)[i].name)]]
     ELSE <<>>)
    \o (IF Has(schema.items)
        THEN <<[schema |-> Get(schema.items), path |-> itemsPath(path)]>>
        ELSE <<>>)
    \o (IF Has(schema.oneOf)
        THEN [i \in 1..Len(Get(schema.oneOf)) |->
               [schema |-> Get(schema.oneOf)[i],
                path |-> compositionPath(path, "oneOf", i - 1)]]
        ELSE <<>>)
    \o (IF Has(schema.allOf)
        THEN [i \in 1..Len(Get(schema.allOf)) |->
               [schema |-> Get(schema.allOf)[i],
                path |-> compositionPath(path, "allOf", i - 1)]]
        ELSE <<>>)
    \o (IF Has(schema.anyOf)
        THEN [i \in 1..Len(Get(schema.anyOf)) |->
               [schema |-> Get(schema.anyOf)[i],
                path |-> compositionPath(path, "anyOf", i - 1)]]
        ELSE <<>>)

(***************************************************************************)
(* Documents.  A path item is the sequence of its entries [key, value];    *)
(* the value of an entry is represented by the four properties the code    *)
(* reads from it (all absent for an array such as parameters).             *)
(***************************************************************************)
Operation(responses, tags, summary, description) ==
  [responses |-> responses, tags |-> tags, summary |-> summary,
   description |-> description]

Entry(key, value) == [key |-> key, value |-> value]

PathEntry(name, item) == [name |-> name, item |-> item]

Response(code, content) == [code |-> code, content |-> content]

Media(mediaType, schema) == [mediaType |-> mediaType, schema |-> schema]

Document(openapi, info, paths, schemas, tags) ==
  [openapi |-> openapi, info |-> info, paths |-> paths,
   components |-> schemas, tags |-> tags]

\* spec.paths || {}
pathsOf(s) == IF Has(s.paths) THEN Get(s.paths) ELSE <<>>

\* spec.tags || []
tagsOf(s) == IF Has(s.tags) THEN Get(s.tags) ELSE <<>>

(***************************************************************************)
(* validateOpenAPISpec: the root fields.                                   *)
(***************************************************************************)
\* versionPattern without the closing anchor: /^3\.\d+\.\d+/
versionPattern_Unanchored(cs) ==
  /\ Len(cs) >= 5
  /\ cs[1] = "3"
  /\ cs[2] = "."
  /\ \E k \in 4..(Len(cs) - 1) :
       /\ cs[k] = "."
       /\ \A i \in 3..(k - 1) : cs[i] \in Digits
       /\ cs[k + 1] \in Digits

\* /^3\.\d+\.\d+$/
versionPattern(cs) ==
  /\ Len(cs) >= 5
  /\ cs[1] = "3"
  /\ cs[2] = "."
  /\ \E k \in 4..(Len(cs) - 1) :
       /\ cs[k] = "."
       /\ \A i \in 3..(k - 1) : cs[i] \in Digits
       /\ \A i \in (k + 1)..Len(cs) : cs[i] \in Digits

openapiErrors(s) ==
  IF ~TruthyChars(s.openapi)
  THEN <<"Missing required field: openapi">>
  ELSE IF ~versionPattern(Get(s.openapi))
  THEN <<"Invalid OpenAPI version format. Expected 3.x.x format">>
  ELSE <<>>

\* infoErrors testing info.version only when info.title is there.
infoErrors_VersionAfterTitle(s) ==
  IF ~Has(s.info)
  THEN <<"Missing required field: info">>
  ELSE IF ~TruthyText(Get(s.info).title)
  THEN <<"Missing required field: info.title">>
  ELSE IF ~TruthyText(Get(s.info).version)
  THEN <<"Missing required field: info.version">>
  ELSE <<>>

infoErrors(s) ==
  IF ~Has(s.info)
  THEN <<"Missing required field: info">>
  ELSE (IF ~TruthyText(Get(s.info).title)
        THEN <<"Missing required field: info.title">> ELSE <<>>)
       \o (IF ~TruthyText(Get(s.info).version)
           THEN <<"Missing required field: info.version">> ELSE <<>>)

\* pathsFieldErrors testing for an empty mapping instead of a missing one.
pathsFieldErrors_EmptyOnly(s) ==
  IF Has(s.paths) /\ Len(Get(s.paths)) = 0
  THEN <<"Missing required field: paths">>
  ELSE <<>>

pathsFieldErrors(s) ==
  IF ~Has(s.paths) THEN <<"Missing required field: paths">> ELSE <<>>

RootErrors(s) == openapiErrors(s) \o infoErrors(s) \o pathsFieldErrors(s)

\* RootWarnings warning of every paths mapping, empty or not.
RootWarnings_AnyPaths(s) ==
  IF Has(s.paths)
  THEN <<"No paths defined in the specification">>
  ELSE <<>>

RootWarnings(s) ==
  IF Has(s.paths) /\ Len(Get(s.paths)) = 0
  THEN <<"No paths defined in the specification">>
  ELSE <<>>

(***************************************************************************)
(* validateOpenAPISpec: components.schemas.                                *)
(***************************************************************************)
componentSchemas(s) ==
  IF Has(s.components) /\ Has(Get(s.components).schemas)
  THEN Get(Get(s.components).schemas)
  ELSE <<>>

TruthyType(o) == Has(o) /\ ~(Get(o).jsType = "string" /\ Get(o).text = "")

\* hasNoTypeDefinition asking whether the keys are there, whatever they hold.
hasNoTypeDefinition_KeysAbsent(schema) ==
  /\ ~Has(schema.type)
  /\ ~Has(schema.ref)
  /\ ~Has(schema.allOf)
  /\ ~Has(schema.oneOf)
  /\ ~Has(schema.anyOf)

hasNoTypeDefinition(schema) ==
  /\ ~TruthyType(schema.type)
  /\ ~TruthyText(schema.ref)
  /\ ~Has(schema.allOf)
  /\ ~Has(schema.oneOf)
  /\ ~Has(schema.anyOf)

ComponentErrors(s) ==
  Flatten([i \in 1..Len(componentSchemas(s)) |->
    validateSchema(componentSchemas(s)[i].schema,
      "components.schemas." \o componentSchemas(s)[i].name)])

ComponentWarnings(s) ==
  Flatten([i \in 1..Len(componentSchemas(s)) |->
    IF hasNoTypeDefinition(componentSchemas(s)[i].schema)
    THEN <<"Schema \"" \o componentSchemas(s)[i].name
           \o "\" has no type definition">>
    ELSE <<>>])

(***************************************************************************)
(* validateOpenAPISpec: paths and operations.                              *)
(***************************************************************************)
validMethods ==
  << <<"g", "e", "t">>, <<"p", "o", "s", "t">>, <<"p", "u", "t">>,
     <<"d", "e", "l", "e", "t", "e">>, <<"p", "a", "t", "c", "h">>,
     <<"h", "e", "a", "d">>, <<"o", "p", "t", "i", "o", "n", "s">>,
     <<"t", "r", "a", "c", "e">> >>

isValidMethod(method) == Contains(validMethods, toLowerCase(method))

\* operation.responses[code] is truthy
hasResponse(operation, code) ==
  \E i \in 1..Len(Get(operation.responses)) :
    Get(operation.responses)[i].code = code

\* responseSchemaErrors naming the method in upper case in the path.
responseSchemaErrors_UpperMethod(pathName, method, response) ==
  IF Has(response.content)
  THEN Flatten([k \in 1..Len(Get(response.content)) |->
         IF Has(Get(response.content)[k].schema)
         THEN validateSchema(Get(Get(response.content)[k].schema),
                "paths." \o Str(pathName) \o "." \o Str(toUpperCase(method))
                \o ".responses." \o Str(response.code) \o ".content."
                \o Get(response.content)[k].mediaType \o ".schema")
         ELSE <<>>])
  ELSE <<>>

responseSchemaErrors(pathName, method, response) ==
  IF Has(response.content)
  THEN Flatten([k \in 1..Len(Get(response.content)) |->
         IF Has(Get(response.content)[k].schema)
         THEN validateSchema(Get(Get(response.content)[k].schema),
                "paths." \o Str(pathName) \o "." \o Str(method)
                \o ".responses." \o Str(response.code) \o ".content."
                \o Get(response.content)[k].mediaType \o ".schema")
         ELSE <<>>])
  ELSE <<>>

\* operationErrors naming the method as the document spells it.
operationErrors_MethodAsWritten(pathName, method, operation) ==
  IF ~Has(operation.responses)
  THEN <<"Missing responses for " \o Str(method) \o " " \o Str(pathName)>>
  ELSE Flatten([i \in 1..Len(Get(operation.responses)) |->
         responseSchemaErrors(pathName, method, Get(operation.responses)[i])])

operationErrors(pathName, method, operation) ==
  IF ~Has(operation.responses)
  THEN <<"Missing responses for " \o Str(toUpperCase(method)) \o " "
         \o Str(pathName)>>
  ELSE Flatten([i \in 1..Len(Get(operation.responses)) |->
         responseSchemaErrors(pathName, method, Get(operation.responses)[i])])

\* successWarnings outside the else branch: an operation without responses
\* has no success response either.
successWarnings_NoElse(pathName, method, operation) ==
  IF \/ ~Has(operation.responses)
     \/ /\ ~hasResponse(operation, <<"2", "0", "0">>)
        /\ ~hasResponse(operation, <<"2", "0", "1">>)
  THEN <<"No success response defined for " \o Str(toUpperCase(method))
         \o " " \o Str(pathName)>>
  ELSE <<>>

\* successWarnings looking for "200" only.
successWarnings_Only200(pathName, method, operation) ==
  IF /\ Has(operation.responses)
     /\ ~hasResponse(operation, <<"2", "0", "0">>)
  THEN <<"No success response defined for " \o Str(toUpperCase(method))
         \o " " \o Str(pathName)>>
  ELSE <<>>

successWarnings(pathName, method, operation) ==
  IF /\ Has(operation.responses)
     /\ ~hasResponse(operation, <<"2", "0", "0">>)
     /\ ~hasResponse(operation, <<"2", "0", "1">>)
  THEN <<"No success response defined for " \o Str(toUpperCase(method))
         \o " " \o Str(pathName)>>
  ELSE <<>>

\* summaryWarnings warning when either of the two is missing.
summaryWarnings_Either(pathName, method, operation) ==
  IF ~TruthyText(operation.summary) \/ ~TruthyText(operation.description)
  THEN <<"No summary or description for " \o Str(toUpperCase(method))
         \o " " \o Str(pathName)>>
  ELSE <<>>

summaryWarnings(pathName, method, operation) ==
  IF ~TruthyText(operation.summary) /\ ~TruthyText(operation.description)
  THEN <<"No summary or description for " \o Str(toUpperCase(method))
         \o " " \o Str(pathName)>>
  ELSE <<>>

tagsWarnings(pathName, method, operation) ==
  IF ~Has(operation.tags) \/ Len(Get(operation.tags)) = 0
  THEN <<"No tags defined for " \o Str(toUpperCase(method)) \o " "
         \o Str(pathName)>>
  ELSE <<>>

operationWarnings(pathName, method, operation) ==
  successWarnings(pathName, method, operation)
  \o summaryWarnings(pathName, method, operation)
  \o tagsWarnings(pathName, method, operation)

pathNameErrors(pathName) ==
  IF ~startsWith(pathName, "/")
  THEN <<"Path \"" \o Str(pathName) \o "\" must start with \"/\"">>
  ELSE <<>>

\* pathItemErrors testing the path key once for each operation.
pathItemErrors_NamePerOperation(pathName, pathItem) ==
  Flatten([j \in 1..Len(pathItem) |->
    IF isValidMethod(pathItem[j].key)
    THEN pathNameErrors(pathName)
         \o operationErrors(pathName, pathItem[j].key, pathItem[j].value)
    ELSE <<>>])

pathItemErrors(pathName, pathItem) ==
  pathNameErrors(pathName)
  \o Flatten([j \in 1..Len(pathItem) |->
       IF isValidMethod(pathItem[j].key)
       THEN operationErrors(pathName, pathItem[j].key, pathItem[j].value)
       ELSE <<>>])

pathItemWarnings(pathName, pathItem) ==
  Flatten([j \in 1..Len(pathItem) |->
    IF isValidMethod(pathItem[j].key)
    THEN operationWarnings(pathName, pathItem[j].key, pathItem[j].value)
    ELSE <<>>])

\* PathErrors taking the paths from the last to the first.
PathErrors_Reversed(s) ==
  Flatten([i \in 1..Len(pathsOf(s)) |->
    pathItemErrors(pathsOf(s)[Len(pathsOf(s)) + 1 - i].name,
                   pathsOf(s)[Len(pathsOf(s)) + 1 - i].item)])

PathErrors(s) ==
  Flatten([i \in 1..Len(pathsOf(s)) |->
    pathItemErrors(pathsOf(s)[i].name, pathsOf(s)[i].item)])

PathWarnings(s) ==
  Flatten([i \in 1..Len(pathsOf(s)) |->
    pathItemWarnings(pathsOf(s)[i].name, pathsOf(s)[i].item)])

(***************************************************************************)
(* validateOpenAPISpec: tag consistency.  definedTags and usedTags are the *)
(* two Sets in insertion order.                                            *)
(***************************************************************************)
definedTags(s) == SetOf([i \in 1..Len(tagsOf(s)) |-> tagsOf(s)[i].name])

entryTags(pathItem) ==
  Flatten([j \in 1..Len(pathItem) |->
    IF Has(pathItem[j].value.tags) THEN Get(pathItem[j].value.tags)
    ELSE <<>>])

usedTags(s) ==
  SetOf(Flatten([i \in 1..Len(pathsOf(s)) |-> entryTags(pathsOf(s)[i].item)]))

unusedTagWarnings(s) ==
  Flatten([i \in 1..Len(definedTags(s)) |->
    IF ~Contains(usedTags(s), definedTags(s)[i])
    THEN <<"Tag \"" \o definedTags(s)[i] \o "\" is defined but never used">>
    ELSE <<>>])

undefinedTagWarnings(s) ==
  Flatten([i \in 1..Len(usedTags(s)) |->
    IF ~Contains(definedTags(s), usedTags(s)[i])
    THEN <<"Tag \"" \o usedTags(s)[i]
           \o "\" is used but not defined in tags section">>
    ELSE <<>>])

TagWarnings(s) == unusedTagWarnings(s) \o undefinedTagWarnings(s)

(***************************************************************************)
(* calculateStats.                                                         *)
(***************************************************************************)
\* countedEntries without the method filter.
countedEntries_Unfiltered(s) ==
  Flatten([i \in 1..Len(pathsOf(s)) |-> pathsOf(s)[i].item])

\* The entries of every path item that pass the method filter, in order.
countedEntries(s) ==
  Flatten([i \in 1..Len(pathsOf(s)) |->
    SelectSeq(pathsOf(s)[i].item, LAMBDA e : isValidMethod(e.key))])

\* countMethods counting under the lower-case spelling of the key.
RECURSIVE countMethods_LowerCased(_)
countMethods_LowerCased(entries) ==
  IF entries = <<>> THEN <<>>
  ELSE LET before == countMethods_LowerCased(SubSeq(entries, 1, Len(entries) - 1))
           method == toLowerCase(entries[Len(entries)].key)
       IN IF \E i \in 1..Len(before) : before[i].key = method
          THEN [i \in 1..Len(before) |->
                 IF before[i].key = method
                 THEN [before[i] EXCEPT !.count = @ + 1]
                 ELSE before[i]]
          ELSE Append(before, [key |-> method, count |-> 1])

\* stats.methods[method] = (stats.methods[method] || 0) + 1, over the
\* entries in order; the object as its [key, count] pairs in insertion order.
RECURSIVE countMethods(_)
countMethods(entries) ==
  IF entries = <<>> THEN <<>>
  ELSE LET before == countMethods(SubSeq(entries, 1, Len(entries) - 1))
           method == entries[Len(entries)].key
       IN IF \E i \in 1..Len(before) : before[i].key = method
          THEN [i \in 1..Len(before) |->
                 IF before[i].key = method
                 THEN [before[i] EXCEPT !.count = @ + 1]
                 ELSE before[i]]
          ELSE Append(before, [key |-> method, count |-> 1])

responseCodes(entries) ==
  SetOf(Flatten([i \in 1..Len(entries) |->
    IF Has(entries[i].value.responses)
    THEN [k \in 1..Len(Get(entries[i].value.responses)) |->
           Get(entries[i].value.responses)[k].code]
    ELSE <<>>]))

\* Array.prototype.sort() without a comparator, on strings.
RECURSIVE insertSorted(_, _)
insertSorted(x, sorted) ==
  IF sorted = <<>> THEN <<x>>
  ELSE IF LexLess(x, Head(sorted)) THEN <<x>> \o sorted
  ELSE <<Head(sorted)>> \o insertSorted(x, Tail(sorted))

\* sort leaving the array in insertion order.
sort_InsertionOrder(s) == s

RECURSIVE sort(_)
sort(s) == IF s = <<>> THEN <<>> ELSE insertSorted(Head(s), sort(Tail(s)))

calculateStats(s) ==
  [endpoints |-> Len(countedEntries(s)),
   methods |-> countMethods(countedEntries(s)),
   tags |-> Len(tagsOf(s)),
   schemas |-> Len(componentSchemas(s)),
   responses |-> sort(responseCodes(countedEntries(s)))]

(***************************************************************************)
(* The documents the model validates.                                      *)
(***************************************************************************)
MaxDepth == 2

MaxPaths == 2

MaxTags == 2

TypeChoices ==
  {None, Some(StringType("string")), Some(StringType("object")),
   Some(StringType("null")), Some(StringType("banana")),
   Some(StringType("String")), Some(ListType("string,null")),
   Some(StringType(""))}

BadLeaves == {Leaf(Some(StringType("null"))), Leaf(Some(StringType("banana")))}

FewLeaves == BadLeaves \cup {Leaf(Some(StringType("string")))}

\* A node holding all five keys at once, and nodes with two children.
CombinedSchemas ==
  {SchemaNode(t, Some(<<Prop("a", c1)>>), Some(c2), Some(<<c1>>),
              Some(<<c2>>), Some(<<c2, c1>>)) :
     t \in {None, Some(StringType("banana")), Some(ListType("string,null"))},
     c1 \in FewLeaves, c2 \in BadLeaves}
  \cup {SchemaNode(Some(StringType("object")),
                   Some(<<Prop("a", c1), Prop("b", c2)>>),
                   None, None, None, None) :
          c1 \in FewLeaves, c2 \in BadLeaves}
  \cup {SchemaNode(None, None, None, Some(<<c1, c2>>), None, None) :
          c1 \in FewLeaves, c2 \in BadLeaves}

Wrap(c) ==
  {SchemaNode(t, Some(<<Prop("a", c)>>), None, None, None, None) :
     t \in {Some(StringType("object")), Some(StringType("null"))}}
  \cup {SchemaNode(Some(StringType("array")), None, Some(c), None, None, None),
        SchemaNode(None, None, None, Some(<<c>>), None, None),
        SchemaNode(None, None, None, None, Some(<<c>>), None),
        SchemaNode(None, None, None, None, None, Some(<<c>>))}

RECURSIVE Schemas(_)
Schemas(depth) ==
  IF depth = 0
  THEN {Leaf(t) : t \in TypeChoices}
       \cup {ScalarSchema, RefNode("#/components/schemas/User"), RefNode(""),
             SchemaNode(Some(StringType("object")), Some(<<>>), None, None,
                        None, None)}
  ELSE Schemas(depth - 1) \cup CombinedSchemas
       \cup UNION {Wrap(c) : c \in Schemas(depth - 1)}

NamedSchema(name, schema) == [name |-> name, schema |-> schema]

Components(schemas) == Some([schemas |-> Some(schemas)])

\* Character strings.
Version304 == <<"3", ".", "0", ".", "4">>

OpenapiChoices ==
  {None, Some(<<>>), Some(Version304),
   Some(<<"3", ".", "1", "0", ".", "2", "2">>),
   Some(<<"2", ".", "0">>), Some(<<"a", "b", "c">>),
   Some(<<"3", ".", "0">>), Some(<<"3", ".", "0", ".", "4", "-", "r", "c">>),
   Some(<<"1", "3", ".", "0", ".", "4">>), Some(<<"3", ".", ".", "4">>)}

Info(title, version) == [title |-> title, version |-> version]

GoodInfo == Some(Info(Some("API"), Some("1.0.0")))

InfoChoices ==
  {None, GoodInfo, Some(Info(None, None)), Some(Info(Some("API"), None)),
   Some(Info(None, Some("1.0.0"))), Some(Info(Some(""), Some("1.0.0")))}

KeyGet == <<"g", "e", "t">>

KeyPost == <<"p", "o", "s", "t">>

KeyGetUpper == <<"G", "E", "T">>

KeyParameters == <<"p", "a", "r", "a", "m", "e", "t", "e", "r", "s">>

KeyMeta == <<"x", "-", "m", "e", "t", "a">>

Code200 == <<"2", "0", "0">>

Code201 == <<"2", "0", "1">>

Code404 == <<"4", "0", "4">>

Code500 == <<"5", "0", "0">>

CodeDefault == <<"d", "e", "f", "a", "u", "l", "t">>

JsonContent(schema) == Some(<<Media("application/json", Some(schema))>>)

ObjectWithNullProperty ==
  SchemaNode(Some(StringType("object")),
             Some(<<Prop("a", Leaf(Some(StringType("null"))))>>),
             None, None, None, None)

\* Response mappings, in the order Object.entries enumerates their keys
\* (integer keys ascending, then the others).
ResponsesChoices ==
  {None, Some(<<>>),
   Some(<<Response(Code200, None)>>),
   Some(<<Response(Code404, None)>>),
   Some(<<Response(Code201, None), Response(Code404, None)>>),
   Some(<<Response(Code200, JsonContent(Leaf(Some(StringType("string"))))),
          Response(Code404, JsonContent(ObjectWithNullProperty))>>),
   Some(<<Response(Code500, Some(<<Media("text/plain", None)>>)),
          Response(CodeDefault, JsonContent(Leaf(Some(StringType("banana")))))>>)}

TagsChoices ==
  {None, Some(<<>>), Some(<<"A">>), Some(<<"B">>), Some(<<"A", "B">>)}

GoodOperation ==
  Operation(Some(<<Response(Code200, None)>>), Some(<<"A">>), Some("List"),
            None)

Operations ==
  {Operation(r, Some(<<"A">>), Some("List"), None) : r \in ResponsesChoices}
  \cup {Operation(Some(<<Response(Code200, None)>>), t, None, Some("text")) :
          t \in TagsChoices}
  \cup {Operation(Some(<<Response(Code200, None)>>), Some(<<"A">>), sm, d) :
          sm \in {None, Some(""), Some("List")}, d \in {None, Some("text")}}

FewOperations ==
  {GoodOperation,
   Operation(None, None, None, None),
   Operation(Some(<<>>), Some(<<"A">>), Some("List"), None),
   Operation(Some(<<Response(Code404, None)>>), Some(<<"B">>), None, None)}

\* Values of entries that are not operations: an array (parameters), and a
\* mapping that happens to hold tags and responses.
ParametersValue == Operation(None, None, None, None)

MetaValues ==
  {Operation(Some(<<Response(Code500, None)>>), Some(<<"A">>), None, None),
   Operation(None, Some(<<"M">>), None, None)}

PathItems ==
  {<<>>, <<Entry(KeyParameters, ParametersValue)>>}
  \cup {<<Entry(k, o)>> : k \in {KeyGet, KeyGetUpper}, o \in Operations}
  \cup {<<Entry(KeyMeta, m)>> : m \in MetaValues}
  \cup {<<Entry(KeyGet, o1), Entry(KeyPost, o2)>> :
          o1 \in FewOperations, o2 \in FewOperations}
  \cup {<<Entry(KeyGetUpper, o1), Entry(KeyGet, o2)>> :
          o1 \in FewOperations, o2 \in FewOperations}
  \cup {<<Entry(KeyParameters, ParametersValue), Entry(KeyPost, o)>> :
          o \in FewOperations}
  \cup {<<Entry(KeyGet, o), Entry(KeyMeta, m)>> :
          o \in FewOperations, m \in MetaValues}

FewPathItems ==
  {<<Entry(KeyGet, GoodOperation), Entry(KeyPost, GoodOperation)>>,
   <<Entry(KeyGet, Operation(Some(<<Response(Code404, None)>>),
                             Some(<<"B">>), None, None)),
     Entry(KeyPost, Operation(Some(<<Response(Code200, None),
                                     Response(Code404, None)>>),
                              None, Some("Create"), None))>>,
   <<Entry(KeyPost, Operation(None, Some(<<"A">>), None, None))>>}

\* The i-th path name: "/a", "/b", ...
PathName(i) == <<"/", LowerLetters[i]>>

NoSlashName == <<"c">>

\* paths mappings of n entries named PathName(1..n), items from FewPathItems
RECURSIVE PathsOfLength(_)
PathsOfLength(n) ==
  IF n = 0 THEN {<<>>}
  ELSE {Append(ps, PathEntry(PathName(n), item)) :
          ps \in PathsOfLength(n - 1), item \in FewPathItems}

\* top-level tags sequences of at most n entries
RECURSIVE TagLists(_)
TagLists(n) ==
  IF n = 0 THEN {<<>>}
  ELSE TagLists(n - 1)
       \cup {Append(ts, [name |-> t]) :
               ts \in {x \in TagLists(n - 1) : Len(x) = n - 1},
               t \in {"A", "B"}}

RootTagsChoices == {None} \cup {Some(ts) : ts \in TagLists(MaxTags)}

SinglePath == Some(<<PathEntry(PathName(1), <<Entry(KeyGet, GoodOperation)>>)>>)

RootDocuments ==
  {Document(o, i, p, None, Some(<<[name |-> "A"]>>)) :
     o \in OpenapiChoices, i \in InfoChoices,
     p \in {None, Some(<<>>), SinglePath}}

SchemaDocuments ==
  {Document(Some(Version304), GoodInfo, SinglePath,
            Components(<<NamedSchema("User", sc)>>), Some(<<[name |-> "A"]>>)) :
     sc \in Schemas(MaxDepth)}
  \cup {Document(Some(Version304), GoodInfo, SinglePath,
                 Components(<<NamedSchema("User", s1), NamedSchema("Pet", s2)>>),
                 None) :
          s1 \in Schemas(0), s2 \in FewLeaves \cup {Leaf(None)}}
  \cup {Document(Some(Version304), GoodInfo, SinglePath, c, None) :
          c \in {Some([schemas |-> None]), Components(<<>>)}}

PathDocuments ==
  {Document(Some(Version304), GoodInfo, Some(<<PathEntry(n, item)>>), None, t) :
     n \in {PathName(1), NoSlashName}, item \in PathItems,
     t \in RootTagsChoices}
  \cup {Document(Some(Version304), GoodInfo, Some(ps), None, t) :
          ps \in UNION {PathsOfLength(n) : n \in 2..MaxPaths},
          t \in {None, Some(<<[name |-> "A"]>>)}}
  \cup {Document(Some(Version304), GoodInfo,
                 Some(<<PathEntry(NoSlashName, i1), PathEntry(PathName(1), i2)>>),
                 None, None) :
          i1 \in FewPathItems, i2 \in FewPathItems}

MixedDocuments ==
  {Document(o, i, p, Components(<<NamedSchema("User", sc)>>), t) :
     o \in {None, Some(<<"2", ".", "0">>)},
     i \in {None, Some(Info(None, None))},
     p \in {None}
           \cup {Some(<<PathEntry(n, item)>>) :
                   n \in {NoSlashName}, item \in FewPathItems},
     sc \in {Leaf(None), ObjectWithNullProperty,
             [ObjectWithNullProperty EXCEPT !.type = None]},
     t \in {None, Some(<<[name |-> "A"], [name |-> "C"]>>)}}

Documents ==
  RootDocuments \cup SchemaDocuments \cup PathDocuments \cup MixedDocuments

(***************************************************************************)
(* The run of the script's main block: validateOpenAPISpec(spec), phase by *)
(* phase, then calculateStats(spec).  calls holds the calls a caller other *)
(* than the main block makes (none in the script's own run), and walk the  *)
(* call stack of one schema walk followed call by call (none here, where   *)
(* a phase is one step).                                                   *)
(***************************************************************************)
VARIABLES spec, pc, errors, warnings, validation, stats, calls, walk

vars == <<spec, pc, errors, warnings, validation, stats, calls, walk>>

NoWalk ==
  [root |-> <<>>, state |-> "none", stack |-> <<>>, visited |-> <<>>,
   errors |-> <<>>]

Init ==
  /\ spec \in Documents
  /\ pc = "root"
  /\ errors = <<>>
  /\ warnings = <<>>
  /\ validation = None
  /\ stats = None
  /\ calls = <<>>
  /\ walk = NoWalk

\* CheckRoot returning the report at once when a root field is in error.
CheckRoot_ReturnsOnError ==
  /\ pc = "root"
  /\ errors' = errors \o RootErrors(spec)
  /\ warnings' = warnings \o RootWarnings(spec)
  /\ pc' = IF RootErrors(spec) = <<>> THEN "components" ELSE "return"
  /\ UNCHANGED <<spec, validation, stats, calls, walk>>

CheckRoot ==
  /\ pc = "root"
  /\ errors' = errors \o RootErrors(spec)
  /\ warnings' = warnings \o RootWarnings(spec)
  /\ pc' = "components"
  /\ UNCHANGED <<spec, validation, stats, calls, walk>>

\* CheckComponents putting its findings before those already there.
CheckComponents_Prepends ==
  /\ pc = "components"
  /\ errors' = ComponentErrors(spec) \o errors
  /\ warnings' = ComponentWarnings(spec) \o warnings
  /\ pc' = "paths"
  /\ UNCHANGED <<spec, validation, stats, calls, walk>>

CheckComponents ==
  /\ pc = "components"
  /\ errors' = errors \o ComponentErrors(spec)
  /\ warnings' = warnings \o ComponentWarnings(spec)
  /\ pc' = "paths"
  /\ UNCHANGED <<spec, validation, stats, calls, walk>>

CheckPaths ==
  /\ pc = "paths"
  /\ errors' = errors \o PathErrors(spec)
  /\ warnings' = warnings \o PathWarnings(spec)
  /\ pc' = "tags"
  /\ UNCHANGED <<spec, validation, stats, calls, walk>>

CheckTags ==
  /\ pc = "tags"
  /\ warnings' = warnings \o TagWarnings(spec)
  /\ pc' = "return"
  /\ UNCHANGED <<spec, errors, validation, stats, calls, walk>>

\* result with validity taken from both accumulators.
result_CountsWarnings(errs, warns) ==
  [errors |-> errs, warnings |-> warns,
   isValid |-> Len(errs) = 0 /\ Len(warns) = 0]

result(errs, warns) ==
  [errors |-> errs, warnings |-> warns, isValid |-> Len(errs) = 0]

Return ==
  /\ pc = "return"
  /\ validation' = Some(result(errors, warnings))
  /\ pc' = "stats"
  /\ UNCHANGED <<spec, errors, warnings, stats, calls, walk>>

\* CalculateStats writing the default of spec.tags back into the document.
CalculateStats_StoresDefault ==
  /\ pc = "stats"
  /\ stats' = Some(calculateStats(spec))
  /\ spec' = [spec EXCEPT !.tags = Some(tagsOf(spec))]
  /\ pc' = "done"
  /\ UNCHANGED <<errors, warnings, validation, calls, walk>>

CalculateStats ==
  /\ pc = "stats"
  /\ stats' = Some(calculateStats(spec))
  /\ pc' = "done"
  /\ UNCHANGED <<spec, errors, warnings, validation, calls, walk>>

Next ==
  \/ CheckRoot
  \/ CheckComponents
  \/ CheckPaths
  \/ CheckTags
  \/ Return
  \/ CalculateStats

Spec == Init /\ [][Next]_vars

(***************************************************************************)
(* Two calls of validateOpenAPISpec and calculateStats made by one caller, *)
(* each on its own document, their phases interleaved in any order.  Each  *)
(* call of validateOpenAPISpec creates the two arrays its closures push    *)
(* onto, and each call of calculateStats builds its own stats object.      *)
(***************************************************************************)
Calls == 1..2

PairDocuments ==
  {Document(o, GoodInfo, p, c, t) :
     o \in {None, Some(Version304)},
     p \in {None, SinglePath,
            Some(<<PathEntry(NoSlashName,
                     <<Entry(KeyPost, Operation(None, Some(<<"A">>), None,
                                                None))>>)>>)},
     c \in {None, Components(<<NamedSchema("User", ObjectWithNullProperty)>>)},
     t \in {None, Some(<<[name |-> "C"]>>)}}

\* The call whose array the name errors denotes inside a call.
\* errorsArray with one array, created once, for all calls.
errorsArray_Shared(call) == 1

errorsArray(call) == call

\* warningsArray with one array, created once, for all calls.
warningsArray_Shared(call) == 1

warningsArray(call) == call

Call(document) ==
  [spec |-> document, pc |-> "root", errors |-> <<>>, warnings |-> <<>>,
   validation |-> None, stats |-> None]

\* errors.push(...errs) and warnings.push(...warns) inside a call
push(cs, call, errs, warns) ==
  [c \in Calls |->
    [cs[c] EXCEPT
       !.errors = IF c = errorsArray(call) THEN @ \o errs ELSE @,
       !.warnings = IF c = warningsArray(call) THEN @ \o warns ELSE @]]

NoDocument == Document(None, None, None, None, None)

InitCalls ==
  /\ calls \in {<<Call(a), Call(b)>> : a \in PairDocuments, b \in PairDocuments}
  /\ spec = NoDocument
  /\ pc = "none"
  /\ errors = <<>>
  /\ warnings = <<>>
  /\ validation = None
  /\ stats = None
  /\ walk = NoWalk

CallCheckRoot(call) ==
  /\ calls[call].pc = "root"
  /\ calls' = [push(calls, call, RootErrors(calls[call].spec),
                    RootWarnings(calls[call].spec))
                 EXCEPT ![call].pc = "components"]
  /\ UNCHANGED <<spec, pc, errors, warnings, validation, stats, walk>>

CallCheckComponents(call) ==
  /\ calls[call].pc = "components"
  /\ calls' = [push(calls, call, ComponentErrors(calls[call].spec),
                    ComponentWarnings(calls[call].spec))
                 EXCEPT ![call].pc = "paths"]
  /\ UNCHANGED <<spec, pc, errors, warnings, validation, stats, walk>>

CallCheckPaths(call) ==
  /\ calls[call].pc = "paths"
  /\ calls' = [push(calls, call, PathErrors(calls[call].spec),
                    PathWarnings(calls[call].spec))
                 EXCEPT ![call].pc = "tags"]
  /\ UNCHANGED <<spec, pc, errors, warnings, validation, stats, walk>>

CallCheckTags(call) ==
  /\ calls[call].pc = "tags"
  /\ calls' = [push(calls, call, <<>>, TagWarnings(calls[call].spec))
                 EXCEPT ![call].pc = "return"]
  /\ UNCHANGED <<spec, pc, errors, warnings, validation, stats, walk>>

CallReturn(call) ==
  /\ calls[call].pc = "return"
  /\ calls' = [calls EXCEPT
       ![call].validation = Some(result(calls[errorsArray(call)].errors,
                                        calls[warningsArray(call)].warnings)),
       ![call].pc = "stats"]
  /\ UNCHANGED <<spec, pc, errors, warnings, validation, stats, walk>>

CallCalculateStats(call) ==
  /\ calls[call].pc = "stats"
  /\ calls' = [calls EXCEPT
       ![call].stats = Some(calculateStats(calls[call].spec)),
       ![call].pc = "done"]
  /\ UNCHANGED <<spec, pc, errors, warnings, validation, stats, walk>>

NextCalls ==
  \E call \in Calls :
    \/ CallCheckRoot(call)
    \/ CallCheckComponents(call)
    \/ CallCheckPaths(call)
    \/ CallCheckTags(call)
    \/ CallReturn(call)
    \/ CallCalculateStats(call)

SpecCalls == InitCalls /\ [][NextCalls]_vars

(***************************************************************************)
(* One walk of validateSchema followed call by call.  stack holds the      *)
(* calls in progress, the innermost last, each with the recursive calls it *)
(* has still to make; visited lists the path of every call entered and     *)
(* errors the messages pushed.  The code runs to completion without        *)
(* waiting, hence the weak fairness of the walk's steps.                   *)
(***************************************************************************)
\* Entering validateSchema(call.schema, call.path): the early return on a
\* value that is not a mapping, and the type check.
enter(w, call) ==
  [w EXCEPT
     !.stack = Append(@, [schema |-> call.schema, path |-> call.path,
                          todo |-> recursiveCalls(call.schema, call.path)]),
     !.visited = Append(@, call.path),
     !.errors = @ \o (IF call.schema.kind = "object" /\ Has(call.schema.type)
                      THEN validateTypeField(Get(call.schema.type), call.path)
                      ELSE <<>>)]

InitWalk ==
  /\ walk \in {[root |-> [schema |-> sc, path |-> "components.schemas.User"],
                state |-> "start", stack |-> <<>>, visited |-> <<>>,
                errors |-> <<>>] : sc \in Schemas(MaxDepth)}
  /\ spec = NoDocument
  /\ pc = "none"
  /\ errors = <<>>
  /\ warnings = <<>>
  /\ validation = None
  /\ stats = None
  /\ calls = <<>>

WalkCall ==
  /\ walk.state = "start"
  /\ walk' = [enter(walk, walk.root) EXCEPT !.state = "walking"]
  /\ UNCHANGED <<spec, pc, errors, warnings, validation, stats, calls>>

WalkRecurse ==
  /\ walk.state = "walking"
  /\ walk.stack[Len(walk.stack)].todo # <<>>
  /\ walk' = enter([walk EXCEPT !.stack[Len(walk.stack)].todo = Tail(@)],
                   Head(walk.stack[Len(walk.stack)].todo))
  /\ UNCHANGED <<spec, pc, errors, warnings, validation, stats, calls>>

WalkReturn ==
  /\ walk.state = "walking"
  /\ walk.stack[Len(walk.stack)].todo = <<>>
  /\ walk' = [walk EXCEPT
       !.stack = SubSeq(@, 1, Len(@) - 1),
       !.state = IF Len(walk.stack) = 1 THEN "returned" ELSE "walking"]
  /\ UNCHANGED <<spec, pc, errors, warnings, validation, stats, calls>>

NextWalk ==
  \/ WalkCall
  \/ WalkRecurse
  \/ WalkReturn

SpecWalk == InitWalk /\ [][NextWalk]_vars /\ WF_vars(NextWalk)

(***************************************************************************)
(* Vocabulary of the properties, stated on the document and on the texts   *)
(* of the messages.                                                        *)
(***************************************************************************)
HttpMethodNames ==
  {"get", "post", "put", "delete", "patch", "head", "options", "trace"}

IsOperationKey(key) == Str(toLowerCase(key)) \in HttpMethodNames

\* The positions <<i, j>> of the operations of the document: entry j of
\* path item i, its key one of the eight methods.
OperationPositions ==
  UNION {{<<i, j>> : j \in {k \in 1..Len(pathsOf(spec)[i].item) :
                              IsOperationKey(pathsOf(spec)[i].item[k].key)}} :
           i \in 1..Len(pathsOf(spec))}

PathAt(e) == pathsOf(spec)[e[1]].name

KeyAt(e) == pathsOf(spec)[e[1]].item[e[2]].key

OperationAt(e) == pathsOf(spec)[e[1]].item[e[2]].value

\* METHOD PATH as the messages print an operation.
MethodText(key) ==
  CASE key = KeyGet -> "GET"
    [] key = KeyGetUpper -> "GET"
    [] key = KeyPost -> "POST"

Subject(e) == MethodText(KeyAt(e)) \o " " \o Str(PathAt(e))

ResponseKeys(operation) ==
  IF Has(operation.responses)
  THEN {Get(operation.responses)[i].code :
          i \in 1..Len(Get(operation.responses))}
  ELSE {}

NullTypeMessage(path) ==
  "Invalid type \"null\" at " \o path \o ". Use \"nullable: true\" instead."

GenericTypeMessage(text, path) ==
  "Invalid type \"" \o text \o "\" at " \o path
  \o ". Must be one of: array, boolean, integer, number, object, string"

AllowedTypes == {"array", "boolean", "integer", "number", "object", "string"}

TypeTexts == {Get(t).text : t \in TypeChoices \ {None}}

Returned == Has(validation)

(***************************************************************************)
(* C1: for every document, the result of validateOpenAPISpec has isValid   *)
(* true if and only if its errors sequence is empty, whatever the number   *)
(* of warnings.                                                            *)
(***************************************************************************)
C1_IsValidIffNoErrors ==
  Returned =>
    /\ Get(validation).errors = errors
    /\ Get(validation).warnings = warnings
    /\ Get(validation).isValid <=> (Get(validation).errors = <<>>)

\* a valid result that carries warnings
C1_Witness ==
  /\ Returned
  /\ Get(validation).isValid
  /\ Len(Get(validation).warnings) >= 2

(***************************************************************************)
(* C2: when openapi, info or paths is missing at the root, errors holds    *)
(* "Missing required field: <field>" for each missing field and isValid    *)
(* is false.                                                               *)
(***************************************************************************)
C2_MissingRootFields ==
  Returned =>
    /\ ~Has(spec.openapi) =>
         /\ Contains(Get(validation).errors, "Missing required field: openapi")
         /\ ~Get(validation).isValid
    /\ ~Has(spec.info) =>
         /\ Contains(Get(validation).errors, "Missing required field: info")
         /\ ~Get(validation).isValid
    /\ ~Has(spec.paths) =>
         /\ Contains(Get(validation).errors, "Missing required field: paths")
         /\ ~Get(validation).isValid

\* a result for a document with none of the three fields
C2_Witness ==
  /\ Returned
  /\ ~Has(spec.openapi)
  /\ ~Has(spec.info)
  /\ ~Has(spec.paths)
  /\ Len(Get(validation).errors) = 3

(***************************************************************************)
(* C3: the version check.                                                  *)
(***************************************************************************)
\* "3.<digits>.<digits>": the text splits at its dots into three parts,
\* the first "3", the other two non-empty runs of digits.
IsThreePartVersion(cs) ==
  \E a \in 1..Len(cs), b \in 1..Len(cs) :
    /\ a < b
    /\ b < Len(cs)
    /\ SubSeq(cs, 1, a) = <<"3", ".">>
    /\ cs[b] = "."
    /\ a + 1 < b
    /\ Range(SubSeq(cs, a + 1, b - 1)) \subseteq Digits
    /\ Range(SubSeq(cs, b + 1, Len(cs))) \subseteq Digits

InvalidVersionReported ==
  Contains(errors, "Invalid OpenAPI version format. Expected 3.x.x format")

MissingVersionReported == Contains(errors, "Missing required field: openapi")

\* C3 as stated: a three-part version is accepted, any other present value
\* yields the format error, an absent value yields the missing-field
\* error, and the two errors never come together.
C3_AsStated ==
  Returned =>
    /\ Has(spec.openapi) /\ IsThreePartVersion(Get(spec.openapi)) =>
         ~InvalidVersionReported /\ ~MissingVersionReported
    /\ Has(spec.openapi) /\ ~IsThreePartVersion(Get(spec.openapi)) =>
         InvalidVersionReported
    /\ ~Has(spec.openapi) => MissingVersionReported
    /\ ~(InvalidVersionReported /\ MissingVersionReported)

\* C3, amended: a three-part version is accepted; a present, non-empty
\* value of any other form yields the format error; an absent or empty
\* value yields the missing-field error; the two errors never come
\* together.
C3_VersionCheck ==
  Returned =>
    /\ Has(spec.openapi) /\ IsThreePartVersion(Get(spec.openapi)) =>
         ~InvalidVersionReported /\ ~MissingVersionReported
    /\ ( /\ Has(spec.openapi)
         /\ Get(spec.openapi) # <<>>
         /\ ~IsThreePartVersion(Get(spec.openapi)) ) =>
         InvalidVersionReported /\ ~MissingVersionReported
    /\ (~Has(spec.openapi) \/ spec.openapi = Some(<<>>)) =>
         MissingVersionReported /\ ~InvalidVersionReported
    /\ ~(InvalidVersionReported /\ MissingVersionReported)

\* an empty openapi value reported as missing
C3_Witness ==
  /\ Returned
  /\ spec.openapi = Some(<<>>)
  /\ MissingVersionReported

\* The top-level schemas of components.schemas and the errors naming them.
ComponentPath(i) == "components.schemas." \o componentSchemas(spec)[i].name

StringTyped(schema) ==
  /\ schema.kind = "object"
  /\ Has(schema.type)
  /\ Get(schema.type).jsType = "string"

IsLeaf(schema) ==
  /\ ~Has(schema.properties)
  /\ ~Has(schema.items)
  /\ ~Has(schema.oneOf)
  /\ ~Has(schema.allOf)
  /\ ~Has(schema.anyOf)

GenericCount(path) ==
  Cardinality({<<i, t>> \in (1..Len(errors)) \X TypeTexts :
                 errors[i] = GenericTypeMessage(t, path)})

(***************************************************************************)
(* C4: the type check of a schema node whose type is a string, read on     *)
(* the top-level schemas of components.schemas once they are walked:       *)
(* "null" gives exactly one error, the null-type one; any other string     *)
(* outside the six allowed types gives exactly one generic error listing   *)
(* the six; an allowed type gives no diagnostic.                           *)
(***************************************************************************)
C4_TypeField ==
  pc \notin {"root", "components"} =>
    \A i \in 1..Len(componentSchemas(spec)) :
      LET schema == componentSchemas(spec)[i].schema
          text == Get(schema.type).text
          path == ComponentPath(i)
      IN StringTyped(schema) =>
           /\ text = "null" =>
                /\ Count(errors, NullTypeMessage(path)) = 1
                /\ GenericCount(path) = 0
           /\ text # "null" /\ text \notin AllowedTypes =>
                /\ Count(errors, GenericTypeMessage(text, path)) = 1
                /\ GenericCount(path) = 1
                /\ Count(errors, NullTypeMessage(path)) = 0
           /\ text \in AllowedTypes =>
                /\ Count(errors, NullTypeMessage(path)) = 0
                /\ GenericCount(path) = 0
                /\ ~Contains(warnings, "Schema \""
                      \o componentSchemas(spec)[i].name
                      \o "\" has no type definition")
           /\ ( /\ pc = "paths"
                /\ IsLeaf(schema)
                /\ Len(componentSchemas(spec)) = 1 ) =>
                Len(errors) = Len(RootErrors(spec))
                              + (IF text \in AllowedTypes THEN 0 ELSE 1)

\* a walked document whose schemas are a "null" leaf and a "banana" leaf
C4_Witness ==
  /\ pc = "paths"
  /\ Len(componentSchemas(spec)) = 2
  /\ componentSchemas(spec)[1].schema = Leaf(Some(StringType("null")))
  /\ componentSchemas(spec)[2].schema = Leaf(Some(StringType("banana")))
  /\ errors = <<NullTypeMessage("components.schemas.User"),
                GenericTypeMessage("banana", "components.schemas.Pet")>>

(***************************************************************************)
(* C5: the schema { type: "object", properties: { a: { type: "null" } } }  *)
(* walked from several base paths: as a top-level component schema, as     *)
(* the items or the first oneOf element of one, and as a response schema.  *)
(***************************************************************************)
ResponseSchemaBases ==
  UNION {UNION {{"paths." \o Str(PathAt(e)) \o "." \o Str(KeyAt(e))
                 \o ".responses." \o Str(Get(OperationAt(e).responses)[r].code)
                 \o ".content."
                 \o Get(Get(OperationAt(e).responses)[r].content)[m].mediaType
                 \o ".schema" :
                   m \in {k \in 1..Len(Get(Get(OperationAt(e).responses)[r].content)) :
                     Get(Get(OperationAt(e).responses)[r].content)[k].schema
                       = Some(ObjectWithNullProperty)}} :
                  r \in {k \in 1..Len(Get(OperationAt(e).responses)) :
                           Has(Get(OperationAt(e).responses)[k].content)}} :
           e \in {f \in OperationPositions : Has(OperationAt(f).responses)}}

ComponentSchemaBases ==
  UNION {LET schema == componentSchemas(spec)[i].schema
         IN (IF schema = ObjectWithNullProperty
             THEN {ComponentPath(i)} ELSE {})
            \cup (IF schema.items = Some(ObjectWithNullProperty)
                  THEN {ComponentPath(i) \o ".items"} ELSE {})
            \cup (IF schema.oneOf = Some(<<ObjectWithNullProperty>>)
                  THEN {ComponentPath(i) \o ".oneOf[0]"} ELSE {}) :
           i \in 1..Len(componentSchemas(spec))}

NullPropertyBases == ComponentSchemaBases \cup ResponseSchemaBases

Walked == pc \notin {"root", "components", "paths"}

\* C5 as stated: the error for the nested property names a path that ends
\* in .properties.a.type
C5_AsStated ==
  Walked =>
    \A base \in NullPropertyBases :
      Contains(errors, NullTypeMessage(base \o ".properties.a.type"))

\* C5, amended: the error for the nested property names a path that ends
\* in .properties.a, the path of the nested node itself (the walker hands
\* the node's path, not the path of its type field, to the type check).
C5_NestedPropertyPath ==
  Walked =>
    \A base \in NullPropertyBases :
      /\ Count(errors, NullTypeMessage(base \o ".properties.a")) = 1
      /\ ~Contains(errors, NullTypeMessage(base \o ".properties.a.type"))

\* the schema walked as a response schema and inside a component schema
C5_Witness ==
  /\ Walked
  /\ "paths./a.get.responses.404.content.application/json.schema"
       \in ResponseSchemaBases
  /\ Contains(errors,
       NullTypeMessage("paths./a.get.responses.404.content."
         \o "application/json.schema.properties.a"))

\* Operations without responses.
LacksResponses(e) == ~Has(OperationAt(e).responses)

(***************************************************************************)
(* C6: every operation without responses gets exactly one error "Missing   *)
(* responses for METHOD PATH" (upper-case method, path as written): the    *)
(* message occurs once for each operation without responses that prints    *)
(* as this METHOD PATH, and for no other.                                  *)
(***************************************************************************)
C6_MissingResponses ==
  Returned =>
    \A e \in OperationPositions :
      Count(Get(validation).errors, "Missing responses for " \o Subject(e))
        = Cardinality({f \in OperationPositions :
                         LacksResponses(f) /\ Subject(f) = Subject(e)})

\* get without responses under "/a", reported once in upper case
C6_Witness ==
  /\ Returned
  /\ \E e \in OperationPositions :
       /\ LacksResponses(e)
       /\ KeyAt(e) = KeyGet
       /\ Subject(e) = "GET /a"
  /\ Count(Get(validation).errors, "Missing responses for GET /a") = 1

(***************************************************************************)
(* C7: the warning "No success response defined for METHOD PATH".          *)
(***************************************************************************)
NoSuccessKey(e) ==
  Code200 \notin ResponseKeys(OperationAt(e))
  /\ Code201 \notin ResponseKeys(OperationAt(e))

NoSuccessMessage(e) == "No success response defined for " \o Subject(e)

\* C7 as stated: every operation whose response keys include neither "200"
\* nor "201" gets the warning.
C7_AsStated ==
  Returned =>
    \A e \in OperationPositions :
      NoSuccessKey(e) => Contains(Get(validation).warnings, NoSuccessMessage(e))

\* C7, amended: every operation that has responses whose keys include
\* neither "200" nor "201" gets the warning, and the rule adds nothing to
\* errors; an operation whose keys include "200" or "201", or that has no
\* responses at all, gets no such warning.  The message occurs once for
\* each operation with responses and no success key that prints as this
\* METHOD PATH.
C7_NoSuccessResponse ==
  Returned =>
    \A e \in OperationPositions :
      /\ Count(Get(validation).warnings, NoSuccessMessage(e))
           = Cardinality({f \in OperationPositions :
                            /\ ~LacksResponses(f)
                            /\ NoSuccessKey(f)
                            /\ Subject(f) = Subject(e)})
      /\ ~Contains(Get(validation).errors, NoSuccessMessage(e))

\* responses { "404": ... } alone: the warning, and no error at all
C7_Witness ==
  /\ Returned
  /\ \E e \in OperationPositions : ResponseKeys(OperationAt(e)) = {Code404}
  /\ Contains(Get(validation).warnings, "No success response defined for GET /a")
  /\ Get(validation).errors = <<>>

(***************************************************************************)
(* C8: tag consistency.                                                    *)
(***************************************************************************)
DeclaredTagNames == {tagsOf(spec)[i].name : i \in 1..Len(tagsOf(spec))}

OperationTagNames ==
  UNION {Range(Get(OperationAt(e).tags)) :
           e \in {f \in OperationPositions : Has(OperationAt(f).tags)}}

UnusedTagMessage(tag) == "Tag \"" \o tag \o "\" is defined but never used"

UndefinedTagMessage(tag) ==
  "Tag \"" \o tag \o "\" is used but not defined in tags section"

\* C8 as stated: a tag declared at root and used by no operation gets
\* exactly one "defined but never used" warning; a tag used by an operation
\* and not declared gets exactly one "used but not defined" warning; a tag
\* both declared and used gets neither; none of them is an error.
C8_AsStated ==
  Returned =>
    /\ \A tag \in DeclaredTagNames \ OperationTagNames :
         Count(Get(validation).warnings, UnusedTagMessage(tag)) = 1
    /\ \A tag \in OperationTagNames \ DeclaredTagNames :
         Count(Get(validation).warnings, UndefinedTagMessage(tag)) = 1
    /\ \A tag \in DeclaredTagNames \cap OperationTagNames :
         /\ ~Contains(Get(validation).warnings, UnusedTagMessage(tag))
         /\ ~Contains(Get(validation).warnings, UndefinedTagMessage(tag))
    /\ \A tag \in DeclaredTagNames \cup OperationTagNames :
         /\ ~Contains(Get(validation).errors, UnusedTagMessage(tag))
         /\ ~Contains(Get(validation).errors, UndefinedTagMessage(tag))

\* Two paths, each exposing get and post.
TwoPathsGetPost ==
  /\ Len(pathsOf(spec)) = 2
  /\ \A i \in 1..2 :
       [j \in 1..Len(pathsOf(spec)[i].item) |-> pathsOf(spec)[i].item[j].key]
         = <<KeyGet, KeyPost>>

(***************************************************************************)
(* C9: calculateStats: endpoints is the number of entries whose key is one *)
(* of the eight methods, case-insensitively; methods counts those entries  *)
(* per key; tags is the length of the root tags (0 if absent); schemas is  *)
(* the number of entries of components.schemas (0 if absent).  Two paths   *)
(* each exposing get and post give endpoints 4, methods {get: 2, post: 2}. *)
(***************************************************************************)
C9_Stats ==
  Has(stats) =>
    /\ Get(stats).endpoints = Cardinality(OperationPositions)
    /\ \A e \in OperationPositions :
         /\ Cardinality({i \in 1..Len(Get(stats).methods) :
                           Get(stats).methods[i].key = KeyAt(e)}) = 1
         /\ \A i \in 1..Len(Get(stats).methods) :
              Get(stats).methods[i].key = KeyAt(e) =>
                Get(stats).methods[i].count
                  = Cardinality({f \in OperationPositions : KeyAt(f) = KeyAt(e)})
    /\ \A i \in 1..Len(Get(stats).methods) :
         \E e \in OperationPositions : KeyAt(e) = Get(stats).methods[i].key
    /\ Get(stats).tags = (IF Has(spec.tags) THEN Len(Get(spec.tags)) ELSE 0)
    /\ Get(stats).schemas
         = (IF Has(spec.components) /\ Has(Get(spec.components).schemas)
            THEN Len(Get(Get(spec.components).schemas)) ELSE 0)
    /\ TwoPathsGetPost =>
         /\ Get(stats).endpoints = 4
         /\ Get(stats).methods = <<[key |-> KeyGet, count |-> 2],
                                   [key |-> KeyPost, count |-> 2]>>

\* the stats of two paths each exposing get and post
C9_Witness ==
  /\ Has(stats)
  /\ TwoPathsGetPost
  /\ Get(stats).endpoints = 4

(***************************************************************************)
(* C10: stats.responses holds exactly the status codes that are response   *)
(* keys of some operation, each once, in ascending lexicographic order.    *)
(***************************************************************************)
C10_ResponseCodes ==
  Has(stats) =>
    /\ \A i \in 1..(Len(Get(stats).responses) - 1) :
         LexLess(Get(stats).responses[i], Get(stats).responses[i + 1])
    /\ Range(Get(stats).responses)
         = UNION {ResponseKeys(OperationAt(e)) : e \in OperationPositions}

\* "404" met before "200" in document order
C10_Witness ==
  /\ Has(stats)
  /\ Get(stats).responses = <<Code200, Code404>>
  /\ Len(pathsOf(spec)) >= 1
  /\ Len(pathsOf(spec)[1].item) >= 1
  /\ ResponseKeys(pathsOf(spec)[1].item[1].value) = {Code404}

(***************************************************************************)
(* C11: validateOpenAPISpec and calculateStats called twice on the same    *)
(* unmodified document give, the second time, the errors and the warnings  *)
(* of the first call, element by element in the same order, and the same   *)
(* stats.                                                                  *)
(***************************************************************************)
C11_SecondRunIdentical ==
  calls[1].spec = calls[2].spec =>
    /\ (Has(calls[1].validation) /\ Has(calls[2].validation)) =>
         /\ Get(calls[2].validation).errors = Get(calls[1].validation).errors
         /\ Get(calls[2].validation).warnings
              = Get(calls[1].validation).warnings
    /\ (Has(calls[1].stats) /\ Has(calls[2].stats)) =>
         Get(calls[2].stats) = Get(calls[1].stats)

\* both calls finished on one document that draws errors and warnings
C11_Witness ==
  /\ calls[1].spec = calls[2].spec
  /\ calls[1].pc = "done"
  /\ calls[2].pc = "done"
  /\ Len(Get(calls[2].validation).errors) >= 2
  /\ Len(Get(calls[2].validation).warnings) >= 2
  /\ Get(calls[2].stats).endpoints = 1

\* The document without the path-item entries whose key is not a method.
OperationsOnly(s) ==
  IF Has(s.paths)
  THEN [s EXCEPT !.paths =
         Some([i \in 1..Len(Get(s.paths)) |->
           PathEntry(Get(s.paths)[i].name,
             SelectSeq(Get(s.paths)[i].item,
                       LAMBDA e : IsOperationKey(e.key)))])]
  ELSE s

AllErrors(s) == RootErrors(s) \o ComponentErrors(s) \o PathErrors(s)

AllWarnings(s) ==
  RootWarnings(s) \o ComponentWarnings(s) \o PathWarnings(s) \o TagWarnings(s)

(***************************************************************************)
(* C12: an entry of a path item whose key is not one of the eight methods  *)
(* produces no error and no warning, whatever its value holds, and adds    *)
(* nothing to the endpoint count: the result and the endpoint count are    *)
(* those of the document without such entries, and a path item holding     *)
(* only parameters contributes no error, no warning and no endpoint.       *)
(***************************************************************************)
C12_AsStated ==
  /\ Returned =>
       /\ Get(validation).errors = AllErrors(OperationsOnly(spec))
       /\ Get(validation).warnings = AllWarnings(OperationsOnly(spec))
  /\ Has(stats) =>
       Get(stats).endpoints = calculateStats(OperationsOnly(spec)).endpoints

\* The tags named by any entry of any path item, operation or not.
EntryTagNames ==
  UNION {UNION {Range(Get(pathsOf(spec)[i].item[j].value.tags)) :
                  j \in {k \in 1..Len(pathsOf(spec)[i].item) :
                           Has(pathsOf(spec)[i].item[k].value.tags)}} :
           i \in 1..Len(pathsOf(spec))}

(***************************************************************************)
(* C13: the used tags the tag check compares with the declared ones are    *)
(* the tags of the entries that pass the method filter, and of no other    *)
(* entry: a tag gets "defined but never used" exactly when it is declared  *)
(* and no operation names it, and "used but not defined" exactly when an   *)
(* operation names it and it is not declared.                              *)
(***************************************************************************)
C13_AsStated ==
  Returned =>
    \A tag \in DeclaredTagNames \cup EntryTagNames :
      /\ Contains(Get(validation).warnings, UnusedTagMessage(tag))
           <=> tag \in DeclaredTagNames \ OperationTagNames
      /\ Contains(Get(validation).warnings, UndefinedTagMessage(tag))
           <=> tag \in OperationTagNames \ DeclaredTagNames

(***************************************************************************)
(* C14: neither validateOpenAPISpec nor calculateStats modifies the        *)
(* document: no step of a run changes any node, key or value of it.        *)
(***************************************************************************)
C14_DocumentUnchanged == [][spec' = spec]_vars

\* a finished run on a document with paths, schemas and tags that drew
\* errors and warnings
C14_Witness ==
  /\ pc = "done"
  /\ Has(stats)
  /\ Len(pathsOf(spec)) >= 1
  /\ Len(componentSchemas(spec)) >= 1
  /\ Len(tagsOf(spec)) >= 1
  /\ Len(errors) >= 2
  /\ Len(warnings) >= 2

\* The findings each phase owes a document, whatever the other phases find.
BadTopLevelType(i) ==
  /\ StringTyped(componentSchemas(spec)[i].schema)
  /\ Get(componentSchemas(spec)[i].schema.type).text \notin AllowedTypes

TopLevelTypeMessage(i) ==
  IF Get(componentSchemas(spec)[i].schema.type).text = "null"
  THEN NullTypeMessage(ComponentPath(i))
  ELSE GenericTypeMessage(Get(componentSchemas(spec)[i].schema.type).text,
                          ComponentPath(i))

LacksText(o) == ~Has(o) \/ Get(o) = ""

(***************************************************************************)
(* C15: validation never stops early: whatever the root checks or the      *)
(* path keys give, every component schema is type-checked, every           *)
(* operation under every path is checked, and the tag warnings are         *)
(* emitted, also for a document without paths.                             *)
(***************************************************************************)
C15_NoShortCircuit ==
  Returned =>
    /\ \A i \in 1..Len(componentSchemas(spec)) :
         BadTopLevelType(i) =>
           Contains(Get(validation).errors, TopLevelTypeMessage(i))
    /\ \A i \in 1..Len(pathsOf(spec)) :
         (pathsOf(spec)[i].name = <<>> \/ pathsOf(spec)[i].name[1] # "/") =>
           Contains(Get(validation).errors,
             "Path \"" \o Str(pathsOf(spec)[i].name)
               \o "\" must start with \"/\"")
    /\ \A e \in OperationPositions :
         /\ LacksResponses(e) =>
              Contains(Get(validation).errors,
                       "Missing responses for " \o Subject(e))
         /\ (LacksText(OperationAt(e).summary)
               /\ LacksText(OperationAt(e).description)) =>
              Contains(Get(validation).warnings,
                       "No summary or description for " \o Subject(e))
         /\ (~Has(OperationAt(e).tags) \/ Get(OperationAt(e).tags) = <<>>) =>
              Contains(Get(validation).warnings,
                       "No tags defined for " \o Subject(e))
    /\ \A tag \in DeclaredTagNames \ EntryTagNames :
         Contains(Get(validation).warnings, UnusedTagMessage(tag))
    /\ \A tag \in OperationTagNames \ DeclaredTagNames :
         Contains(Get(validation).warnings, UndefinedTagMessage(tag))

\* no openapi, no info, a path key without "/": the operation under it is
\* still checked, the schema still walked, the unused tag still reported
C15_Witness ==
  /\ Returned
  /\ ~Has(spec.openapi)
  /\ ~Has(spec.info)
  /\ Len(pathsOf(spec)) = 1
  /\ pathsOf(spec)[1].name = NoSlashName
  /\ Contains(Get(validation).errors, "Missing required field: openapi")
  /\ Contains(Get(validation).errors, "Path \"c\" must start with \"/\"")
  /\ Contains(Get(validation).errors, "Missing responses for POST c")
  /\ Contains(Get(validation).errors,
       NullTypeMessage("components.schemas.User.properties.a"))
  /\ Contains(Get(validation).warnings, "No summary or description for POST c")
  /\ Contains(Get(validation).warnings, UnusedTagMessage("C"))

\* A schema tree measured through properties, items, oneOf, allOf and anyOf:
\* the values at the child positions of a node, its number of nodes, and
\* the number of nodes on its longest chain.
ChildValues(schema) ==
  IF schema.kind # "object" THEN <<>>
  ELSE (IF Has(schema.properties)
        THEN [i \in 1..Len(Get(schema.properties)) |->
               Get(schema.properties)[i].schema]
        ELSE <<>>)
       \o schema.items
       \o (IF Has(schema.oneOf) THEN Get(schema.oneOf) ELSE <<>>)
       \o (IF Has(schema.allOf) THEN Get(schema.allOf) ELSE <<>>)
       \o (IF Has(schema.anyOf) THEN Get(schema.anyOf) ELSE <<>>)

RECURSIVE SumOf(_)
SumOf(ns) == IF ns = <<>> THEN 0 ELSE Head(ns) + SumOf(Tail(ns))

RECURSIVE MaxOf(_)
MaxOf(ns) ==
  IF ns = <<>> THEN 0
  ELSE IF Head(ns) >= MaxOf(Tail(ns)) THEN Head(ns) ELSE MaxOf(Tail(ns))

RECURSIVE NodeCount(_)
NodeCount(schema) ==
  1 + SumOf([i \in 1..Len(ChildValues(schema)) |->
              NodeCount(ChildValues(schema)[i])])

RECURSIVE TreeDepth(_)
TreeDepth(schema) ==
  1 + MaxOf([i \in 1..Len(ChildValues(schema)) |->
              TreeDepth(ChildValues(schema)[i])])

WalkBounded ==
  /\ Len(walk.stack) <= TreeDepth(walk.root.schema)
  /\ Cardinality(Range(walk.visited)) = Len(walk.visited)
  /\ Len(walk.visited) <= NodeCount(walk.root.schema)
  /\ walk.state = "returned" =>
       /\ Len(walk.visited) = NodeCount(walk.root.schema)
       /\ walk.stack = <<>>
       /\ walk.errors = validateSchema(walk.root.schema, walk.root.path)

(***************************************************************************)
(* C16: the walk of a finite schema tree returns; it enters each node      *)
(* reachable through properties, items, oneOf, allOf and anyOf exactly     *)
(* once, and the calls in progress never outnumber the nodes on the        *)
(* longest chain of the tree.                                              *)
(***************************************************************************)
C16_WalkTerminates == []WalkBounded /\ <>(walk.state = "returned")

\* a returned walk of a tree three nodes deep holding four nodes or more
C16_Witness ==
  /\ walk.state = "returned"
  /\ TreeDepth(walk.root.schema) = 3
  /\ Len(walk.visited) >= 4
  /\ Len(walk.errors) >= 2

\* What one call alone reports for a document.
AloneValidation(s) == result(AllErrors(s), AllWarnings(s))

(***************************************************************************)
(* C17: two calls, one per document, run in any order or interleaving:     *)
(* each reports for its document the errors, warnings, isValid and stats   *)
(* a call alone reports for it, and nothing found for the other document.  *)
(***************************************************************************)
C17_RunsIndependent ==
  \A call \in Calls :
    /\ Has(calls[call].validation) =>
         /\ Get(calls[call].validation) = AloneValidation(calls[call].spec)
         /\ Get(calls[call].validation).isValid
              <=> (AllErrors(calls[call].spec) = <<>>)
    /\ Has(calls[call].stats) =>
         Get(calls[call].stats) = calculateStats(calls[call].spec)

\* the second call has returned a valid report while the first, on another
\* document, is in mid-run with errors already pushed
C17_Witness ==
  /\ calls[1].spec # calls[2].spec
  /\ calls[1].pc = "paths"
  /\ Len(calls[1].errors) >= 2
  /\ calls[2].pc = "done"
  /\ Get(calls[2].validation).isValid
  /\ Get(calls[2].validation).errors = <<>>
  /\ Get(calls[2].stats).endpoints = 1

\* The nodes of a schema tree whose type is a string outside the allowed set.
HasBadType(schema) ==
  StringTyped(schema) /\ Get(schema.type).text \notin AllowedTypes

RECURSIVE BadTypeCount(_)
BadTypeCount(schema) ==
  (IF HasBadType(schema) THEN 1 ELSE 0)
  + SumOf([i \in 1..Len(ChildValues(schema)) |->
            BadTypeCount(ChildValues(schema)[i])])

HoldsAllFiveKeys(schema) ==
  /\ Has(schema.properties)
  /\ Has(schema.items)
  /\ Has(schema.oneOf)
  /\ Has(schema.allOf)
  /\ Has(schema.anyOf)

(***************************************************************************)
(* C18: the walk is not exclusive: every one of properties, items, oneOf,  *)
(* allOf and anyOf that a node holds is walked, so once the component      *)
(* schemas are walked the type errors number the nodes, in the whole       *)
(* subtrees of the schemas through all five keys, whose type is a string   *)
(* outside the allowed set.                                                *)
(***************************************************************************)
C18_WalkNotExclusive ==
  pc = "paths" =>
    Len(errors) - Len(RootErrors(spec))
      = SumOf([i \in 1..Len(componentSchemas(spec)) |->
                BadTypeCount(componentSchemas(spec)[i].schema)])

\* a node holding all five keys, itself and its six children in error
C18_Witness ==
  /\ pc = "paths"
  /\ Len(componentSchemas(spec)) = 1
  /\ HoldsAllFiveKeys(componentSchemas(spec)[1].schema)
  /\ BadTypeCount(componentSchemas(spec)[1].schema) = 7
  /\ Len(errors) = 7

\* The error a node owes for its own type, and the errors of a tree in
\* pre-order, each naming the path of its node built from the path P of the
\* root: P.properties.<name>, P.items, P.<keyword>[<zero-based index>].
TypeMessages(schema, path) ==
  IF ~HasBadType(schema) THEN <<>>
  ELSE IF Get(schema.type).text = "null" THEN <<NullTypeMessage(path)>>
  ELSE <<GenericTypeMessage(Get(schema.type).text, path)>>

RECURSIVE PreOrder(_, _)
PreOrder(schema, P) ==
  IF schema.kind # "object" THEN <<>>
  ELSE
    TypeMessages(schema, P)
    \o (IF Has(schema.properties)
        THEN Flatten([i \in 1..Len(Get(schema.properties)) |->
               PreOrder(Get(schema.properties)[i].schema,
                        P \o ".properties." \o Get(schema.properties)[i].name)])
        ELSE <<>>)
    \o (IF Has(schema.items) THEN PreOrder(Get(schema.items), P \o ".items")
        ELSE <<>>)
    \o Flatten([k \in 1..3 |->
         LET keyword == <<"oneOf", "allOf", "anyOf">>[k]
             elements == <<schema.oneOf, schema.allOf, schema.anyOf>>[k]
         IN IF Has(elements)
            THEN Flatten([i \in 1..Len(Get(elements)) |->
                   PreOrder(Get(elements)[i],
                     P \o "." \o keyword \o "["
                       \o <<"0", "1", "2", "3">>[i] \o "]")])
            ELSE <<>>])

(***************************************************************************)
(* C19: the walk at path P hands a property the path P.properties.<name>,  *)
(* items the path P.items and element i (from zero) of oneOf, allOf or     *)
(* anyOf the path P.<keyword>[i]; it takes properties in the order of the  *)
(* mapping and elements in the order of the sequence, so the errors of the *)
(* component schemas come in pre-order, a node's own error before those of *)
(* its descendants.                                                        *)
(***************************************************************************)
C19_PreOrderPaths ==
  pc = "paths" =>
    SubSeq(errors, Len(RootErrors(spec)) + 1, Len(errors))
      = Flatten([i \in 1..Len(componentSchemas(spec)) |->
          PreOrder(componentSchemas(spec)[i].schema, ComponentPath(i))])

\* the errors of a node in error that holds all five keys
C19_Witness ==
  /\ pc = "paths"
  /\ errors =
       <<GenericTypeMessage("banana", "components.schemas.User"),
         NullTypeMessage("components.schemas.User.properties.a"),
         GenericTypeMessage("banana", "components.schemas.User.items"),
         NullTypeMessage("components.schemas.User.oneOf[0]"),
         GenericTypeMessage("banana", "components.schemas.User.allOf[0]"),
         GenericTypeMessage("banana", "components.schemas.User.anyOf[0]"),
         NullTypeMessage("components.schemas.User.anyOf[1]")>>

\* The children of the node at path P, each with its path.
DirectChildren(schema, P) ==
  IF schema.kind # "object" THEN {}
  ELSE
    (IF Has(schema.properties)
     THEN {[node |-> Get(schema.properties)[i].schema,
            path |-> P \o ".properties." \o Get(schema.properties)[i].name] :
             i \in 1..Len(Get(schema.properties))}
     ELSE {})
    \cup (IF Has(schema.items)
          THEN {[node |-> Get(schema.items), path |-> P \o ".items"]}
          ELSE {})
    \cup UNION {LET keyword == <<"oneOf", "allOf", "anyOf">>[k]
                    elements == <<schema.oneOf, schema.allOf, schema.anyOf>>[k]
                IN IF Has(elements)
                   THEN {[node |-> Get(elements)[i],
                          path |-> P \o "." \o keyword \o "["
                                     \o <<"0", "1", "2", "3">>[i] \o "]"] :
                           i \in 1..Len(Get(elements))}
                   ELSE {} : k \in 1..3}

NonStringTyped(schema) ==
  /\ schema.kind = "object"
  /\ Has(schema.type)
  /\ Get(schema.type).jsType # "string"

NoTypeErrorAt(path) ==
  Count(errors, NullTypeMessage(path)) = 0 /\ GenericCount(path) = 0

(***************************************************************************)
(* C20: a schema node whose type is present and not a string draws no      *)
(* error and no warning from the type check, and its children are walked   *)
(* as usual; a schema that is not a mapping draws no diagnostic.  Read on  *)
(* the top-level component schemas and their children once walked.         *)
(***************************************************************************)
C20_NonStringType ==
  pc \notin {"root", "components"} =>
    \A i \in 1..Len(componentSchemas(spec)) :
      LET schema == componentSchemas(spec)[i].schema
          path == ComponentPath(i)
      IN /\ NonStringTyped(schema) =>
              /\ NoTypeErrorAt(path)
              /\ \A c \in DirectChildren(schema, path) :
                   /\ HasBadType(c.node) =>
                        Count(errors, TypeMessages(c.node, c.path)[1]) = 1
                   /\ NonStringTyped(c.node) => NoTypeErrorAt(c.path)
              /\ (pc = "paths" /\ Len(componentSchemas(spec)) = 1) =>
                   /\ Len(errors) - Len(RootErrors(spec))
                        = BadTypeCount(schema)
                   /\ warnings = RootWarnings(spec)
         /\ schema.kind # "object" =>
              /\ NoTypeErrorAt(path)
              /\ (pc = "paths" /\ Len(componentSchemas(spec)) = 1) =>
                   Len(errors) = Len(RootErrors(spec))
         /\ \A c \in DirectChildren(schema, path) :
              (c.node.kind # "object" \/ NonStringTyped(c.node)) =>
                NoTypeErrorAt(c.path)

\* a node typed by a sequence and holding all five keys: no error for the
\* node, one for each of its six children
C20_Witness ==
  /\ pc = "paths"
  /\ Len(componentSchemas(spec)) = 1
  /\ NonStringTyped(componentSchemas(spec)[1].schema)
  /\ HoldsAllFiveKeys(componentSchemas(spec)[1].schema)
  /\ Len(errors) = 6
  /\ errors[1] = NullTypeMessage("components.schemas.User.properties.a")
  /\ warnings = <<>>

(***************************************************************************)
(* C21: with info present, info.title and info.version are checked each    *)
(* on its own: each missing one draws its own error, both missing draw     *)
(* two, a non-empty one draws none; "Missing required field: info" comes   *)
(* exactly when info is missing, and then without the two others.          *)
(***************************************************************************)
C21_InfoFields ==
  Returned =>
    LET errs == Get(validation).errors
        title == Count(errs, "Missing required field: info.title")
        version == Count(errs, "Missing required field: info.version")
    IN /\ ~Has(spec.info) =>
            /\ Count(errs, "Missing required field: info") = 1
            /\ title = 0
            /\ version = 0
       /\ Has(spec.info) =>
            /\ Count(errs, "Missing required field: info") = 0
            /\ ~Has(Get(spec.info).title) => title = 1
            /\ ~Has(Get(spec.info).version) => version = 1
            /\ (Has(Get(spec.info).title) /\ Get(Get(spec.info).title) # "") =>
                 title = 0
            /\ (Has(Get(spec.info).version)
                  /\ Get(Get(spec.info).version) # "") => version = 0

\* info present without title and without version: the two errors
C21_Witness ==
  /\ Returned
  /\ Has(spec.info)
  /\ ~Has(Get(spec.info).title)
  /\ ~Has(Get(spec.info).version)
  /\ Has(spec.openapi)
  /\ Get(validation).errors = <<"Missing required field: info.title",
                                "Missing required field: info.version">>

NoPathsMessage == "No paths defined in the specification"

(***************************************************************************)
(* C22: a document whose paths is present with no entry gets the warning   *)
(* "No paths defined in the specification" once and no error from the      *)
(* paths rule, and is valid when its other root fields are in order; a     *)
(* document with a path entry never gets the warning.                      *)
(***************************************************************************)
C22_EmptyPaths ==
  Returned =>
    /\ (Has(spec.paths) /\ Get(spec.paths) = <<>>) =>
         /\ Count(Get(validation).warnings, NoPathsMessage) = 1
         /\ ~Contains(Get(validation).errors, NoPathsMessage)
         /\ ~Contains(Get(validation).errors, "Missing required field: paths")
         /\ ( /\ Has(spec.openapi)
              /\ IsThreePartVersion(Get(spec.openapi))
              /\ spec.info = GoodInfo
              /\ componentSchemas(spec) = <<>> ) =>
              Get(validation).isValid
    /\ Len(pathsOf(spec)) >= 1 =>
         ~Contains(Get(validation).warnings, NoPathsMessage)

\* a valid document with an empty paths mapping
C22_Witness ==
  /\ Returned
  /\ spec.paths = Some(<<>>)
  /\ Get(validation).isValid
  /\ Contains(Get(validation).warnings, NoPathsMessage)

LacksSlash(name) == name = <<>> \/ name[1] # "/"

SlashMessage(name) == "Path \"" \o Str(name) \o "\" must start with \"/\""

OperationsUnder(i) == {e \in OperationPositions : e[1] = i}

(***************************************************************************)
(* C23: every key of paths that does not start with "/" gets exactly one   *)
(* error "Path "<key>" must start with "/"", however many operations its   *)
(* path item holds, and a key that starts with "/" gets none.              *)
(***************************************************************************)
C23_PathKeys ==
  Returned =>
    \A i \in 1..Len(pathsOf(spec)) :
      /\ Count(Get(validation).errors, SlashMessage(pathsOf(spec)[i].name))
           = (IF LacksSlash(pathsOf(spec)[i].name) THEN 1 ELSE 0)
      /\ ~Contains(Get(validation).warnings,
                   SlashMessage(pathsOf(spec)[i].name))

\* the key "c" holding two operations, before a key that starts with "/"
C23_Witness ==
  /\ Returned
  /\ Len(pathsOf(spec)) = 2
  /\ pathsOf(spec)[1].name = NoSlashName
  /\ Cardinality(OperationsUnder(1)) = 2
  /\ ~LacksSlash(pathsOf(spec)[2].name)
  /\ Count(Get(validation).errors, "Path \"c\" must start with \"/\"") = 1

(***************************************************************************)
(* C24: the warnings "No summary or description for METHOD PATH" and "No   *)
(* tags defined for METHOD PATH".                                          *)
(***************************************************************************)
NoSummaryMessage(e) == "No summary or description for " \o Subject(e)

NoTagsMessage(e) == "No tags defined for " \o Subject(e)

LacksTags(e) == ~Has(OperationAt(e).tags) \/ Get(OperationAt(e).tags) = <<>>

\* C24 as stated: the summary warning comes exactly when summary and
\* description are both absent, the tags warning exactly when tags is
\* absent or empty; each message occurs once for each such operation that
\* prints as this METHOD PATH, with or without responses, and never in
\* errors.
C24_AsStated ==
  Returned =>
    \A e \in OperationPositions :
      /\ Count(Get(validation).warnings, NoSummaryMessage(e))
           = Cardinality({f \in OperationPositions :
                            /\ ~Has(OperationAt(f).summary)
                            /\ ~Has(OperationAt(f).description)
                            /\ Subject(f) = Subject(e)})
      /\ Count(Get(validation).warnings, NoTagsMessage(e))
           = Cardinality({f \in OperationPositions :
                            LacksTags(f) /\ Subject(f) = Subject(e)})
      /\ ~Contains(Get(validation).errors, NoSummaryMessage(e))
      /\ ~Contains(Get(validation).errors, NoTagsMessage(e))

\* C24, amended: the summary warning comes exactly when each of summary
\* and description is absent or the empty string (a non-empty one of the
\* two suppresses it); the tags warning exactly when tags is absent or
\* empty; both with or without responses, and never in errors.
C24_SummaryAndTags ==
  Returned =>
    \A e \in OperationPositions :
      /\ Count(Get(validation).warnings, NoSummaryMessage(e))
           = Cardinality({f \in OperationPositions :
                            /\ LacksText(OperationAt(f).summary)
                            /\ LacksText(OperationAt(f).description)
                            /\ Subject(f) = Subject(e)})
      /\ Count(Get(validation).warnings, NoTagsMessage(e))
           = Cardinality({f \in OperationPositions :
                            LacksTags(f) /\ Subject(f) = Subject(e)})
      /\ ~Contains(Get(validation).errors, NoSummaryMessage(e))
      /\ ~Contains(Get(validation).errors, NoTagsMessage(e))

\* summary: "" with no description: the warning, though summary is present
C24_Witness ==
  /\ Returned
  /\ \E e \in OperationPositions :
       /\ OperationAt(e).summary = Some("")
       /\ ~Has(OperationAt(e).description)
       /\ Subject(e) = "GET /a"
  /\ Get(validation).warnings = <<"No summary or description for GET /a">>

\* The response schemas of the document, each with the base path
\* paths.<path>.<method>.responses.<statusCode>.content.<mediaType>.schema
\* (path, method, status code and media type as the document spells them),
\* in document order.
MediaSites(pathName, method, response) ==
  IF ~Has(response.content) THEN <<>>
  ELSE Flatten([m \in 1..Len(Get(response.content)) |->
         IF ~Has(Get(response.content)[m].schema) THEN <<>>
         ELSE <<[schema |-> Get(Get(response.content)[m].schema),
                 base |-> "paths." \o Str(pathName) \o "." \o Str(method)
                            \o ".responses." \o Str(response.code)
                            \o ".content."
                            \o Get(response.content)[m].mediaType
                            \o ".schema"]>>])

EntrySites(pathName, entry) ==
  IF ~IsOperationKey(entry.key) \/ ~Has(entry.value.responses) THEN <<>>
  ELSE Flatten([r \in 1..Len(Get(entry.value.responses)) |->
         MediaSites(pathName, entry.key, Get(entry.value.responses)[r])])

ResponseSites ==
  Flatten([i \in 1..Len(pathsOf(spec)) |->
    Flatten([j \in 1..Len(pathsOf(spec)[i].item) |->
      EntrySites(pathsOf(spec)[i].name, pathsOf(spec)[i].item[j])])])

(***************************************************************************)
(* C25: every response schema of an operation with responses is walked     *)
(* from its base path: each node in it whose type is invalid draws its     *)
(* error under that base path, once, and the document is then invalid;     *)
(* responses without content and media types without schema draw nothing,  *)
(* so the errors number the root errors, the invalid types of the          *)
(* component and response schemas, the path keys without "/" and the       *)
(* operations without responses.                                           *)
(***************************************************************************)
C25_ResponseSchemas ==
  Returned =>
    /\ \A k \in 1..Len(ResponseSites) :
         LET owed == PreOrder(ResponseSites[k].schema, ResponseSites[k].base)
         IN /\ \A n \in 1..Len(owed) :
                 Count(Get(validation).errors, owed[n]) = 1
            /\ owed # <<>> => ~Get(validation).isValid
    /\ Len(Get(validation).errors)
         = Len(RootErrors(spec))
           + SumOf([i \in 1..Len(componentSchemas(spec)) |->
                     BadTypeCount(componentSchemas(spec)[i].schema)])
           + Cardinality({i \in 1..Len(pathsOf(spec)) :
                            LacksSlash(pathsOf(spec)[i].name)})
           + Cardinality({e \in OperationPositions : LacksResponses(e)})
           + SumOf([k \in 1..Len(ResponseSites) |->
                     BadTypeCount(ResponseSites[k].schema)])

\* GET /a with a 500 response whose media type has no schema and a default
\* response whose schema has an invalid type
C25_Witness ==
  /\ Returned
  /\ Len(ResponseSites) = 1
  /\ \E e \in OperationPositions :
       /\ KeyAt(e) = KeyGetUpper
       /\ ResponseKeys(OperationAt(e)) = {Code500, CodeDefault}
  /\ ~Get(validation).isValid
  /\ Get(validation).errors =
       <<GenericTypeMessage("banana",
           "paths./a.GET.responses.default.content.application/json.schema")>>

\* The phase each message belongs to: 1 root, 2 components, 3 paths and
\* operations, 4 tag consistency (0 for a text no phase emits).
IsPrefix(a, b) == Len(a) <= Len(b) /\ SubSeq(b, 1, Len(a)) = a

RootErrorTexts ==
  {"Missing required field: openapi",
   "Invalid OpenAPI version format. Expected 3.x.x format",
   "Missing required field: info", "Missing required field: info.title",
   "Missing required field: info.version", "Missing required field: paths"}

ComponentErrorTexts ==
  UNION {Range(PreOrder(componentSchemas(spec)[i].schema, ComponentPath(i))) :
           i \in 1..Len(componentSchemas(spec))}

PathErrorTexts ==
  {SlashMessage(pathsOf(spec)[i].name) : i \in 1..Len(pathsOf(spec))}
  \cup {"Missing responses for " \o Subject(e) : e \in OperationPositions}
  \cup UNION {Range(PreOrder(ResponseSites[k].schema, ResponseSites[k].base)) :
                k \in 1..Len(ResponseSites)}

ErrorPhase(text) ==
  IF text \in RootErrorTexts THEN 1
  ELSE IF text \in ComponentErrorTexts THEN 2
  ELSE IF text \in PathErrorTexts THEN 3
  ELSE 0

ComponentWarningTexts ==
  {"Schema \"" \o componentSchemas(spec)[i].name
     \o "\" has no type definition" : i \in 1..Len(componentSchemas(spec))}

PathWarningTexts ==
  UNION {{NoSuccessMessage(e), NoSummaryMessage(e), NoTagsMessage(e)} :
           e \in OperationPositions}

TagWarningTexts ==
  UNION {{UnusedTagMessage(tag), UndefinedTagMessage(tag)} :
           tag \in DeclaredTagNames \cup EntryTagNames}

WarningPhase(text) ==
  IF text = NoPathsMessage THEN 1
  ELSE IF text \in ComponentWarningTexts THEN 2
  ELSE IF text \in PathWarningTexts THEN 3
  ELSE IF text \in TagWarningTexts THEN 4
  ELSE 0

PhasesDone(at) ==
  CASE at = "root" -> 0
    [] at = "components" -> 1
    [] at = "paths" -> 2
    [] at = "tags" -> 3
    [] OTHER -> 4

InPhaseOrder(errs, warns, at) ==
  /\ \A a \in 1..Len(errs) :
       /\ ErrorPhase(errs[a]) \in 1..PhasesDone(at)
       /\ \A b \in a..Len(errs) : ErrorPhase(errs[a]) <= ErrorPhase(errs[b])
  /\ \A a \in 1..Len(warns) :
       /\ WarningPhase(warns[a]) \in 1..PhasesDone(at)
       /\ \A b \in a..Len(warns) :
            WarningPhase(warns[a]) <= WarningPhase(warns[b])

(***************************************************************************)
(* C26: during a run errors and warnings only grow at their end: what is   *)
(* there stays, in place; the path phase adds one error for each finding,  *)
(* alike or not; and the diagnostics stand in phase order: root, then      *)
(* component schemas, then paths and operations, then tag consistency.     *)
(***************************************************************************)
C26_AppendOnlyInPhaseOrder ==
  [][ /\ IsPrefix(errors, errors')
      /\ IsPrefix(warnings, warnings')
      /\ InPhaseOrder(errors', warnings', pc')
      /\ pc = "paths" =>
           Len(errors') - Len(errors)
             = Cardinality({i \in 1..Len(pathsOf(spec)) :
                              LacksSlash(pathsOf(spec)[i].name)})
               + Cardinality({e \in OperationPositions : LacksResponses(e)})
               + SumOf([k \in 1..Len(ResponseSites) |->
                         BadTypeCount(ResponseSites[k].schema)]) ]_vars

\* errors and warnings of every phase, in phase order
C26_Witness ==
  /\ Returned
  /\ \E a, b, c \in 1..Len(errors) :
       /\ a < b
       /\ b < c
       /\ ErrorPhase(errors[a]) = 1
       /\ ErrorPhase(errors[b]) = 2
       /\ ErrorPhase(errors[c]) = 3
  /\ \E a, b, c \in 1..Len(warnings) :
       /\ a < b
       /\ b < c
       /\ WarningPhase(warnings[a]) = 2
       /\ WarningPhase(warnings[b]) = 3
       /\ WarningPhase(warnings[c]) = 4

\* The texts about one entry of a path item, and about one path.
EntryErrorTexts(e) ==
  {"Missing responses for " \o Subject(e)}
  \cup UNION {Range(PreOrder(EntrySites(PathAt(e),
                      pathsOf(spec)[e[1]].item[e[2]])[k].schema,
                    EntrySites(PathAt(e),
                      pathsOf(spec)[e[1]].item[e[2]])[k].base)) :
                k \in 1..Len(EntrySites(PathAt(e),
                                        pathsOf(spec)[e[1]].item[e[2]]))}

EntryWarningTexts(e) ==
  {NoSuccessMessage(e), NoSummaryMessage(e), NoTagsMessage(e)}

PathTexts(i) ==
  {SlashMessage(pathsOf(spec)[i].name)}
  \cup UNION {EntryErrorTexts(e) \cup EntryWarningTexts(e) :
                e \in OperationsUnder(i)}

\* In sequence s every text of before stands ahead of every text of after.
AllAhead(s, before, after) ==
  \A a, b \in 1..Len(s) :
    (s[a] \in before \ after /\ s[b] \in after \ before) => a < b

(***************************************************************************)
(* C27: the diagnostics of the operations follow the key order of the      *)
(* document: in errors and in warnings, every text about an earlier path   *)
(* or its operations stands before every text about a later one, whether   *)
(* or not the path keys start with "/"; within a path item the texts of    *)
(* an earlier method key stand before those of a later one, and the text   *)
(* about the path key before those of its operations.                      *)
(***************************************************************************)
C27_DocumentOrder ==
  Returned =>
    /\ \A i, j \in 1..Len(pathsOf(spec)) :
         i < j =>
           /\ AllAhead(Get(validation).errors, PathTexts(i), PathTexts(j))
           /\ AllAhead(Get(validation).warnings, PathTexts(i), PathTexts(j))
    /\ \A e, f \in OperationPositions :
         (e[1] = f[1] /\ e[2] < f[2]) =>
           /\ AllAhead(Get(validation).errors, EntryErrorTexts(e),
                       EntryErrorTexts(f))
           /\ AllAhead(Get(validation).warnings, EntryWarningTexts(e),
                       EntryWarningTexts(f))
    /\ \A e \in OperationPositions :
         AllAhead(Get(validation).errors,
                  {SlashMessage(PathAt(e))}, EntryErrorTexts(e))

\* the key "c" before the key "/a", each with an operation in error
C27_Witness ==
  /\ Returned
  /\ Get(validation).errors =
       <<"Path \"c\" must start with \"/\"", "Missing responses for POST c",
         "Missing responses for POST /a">>
  /\ Get(validation).warnings =
       <<"No summary or description for POST c",
         "No summary or description for POST /a",
         "Tag \"A\" is used but not defined in tags section">>

NoTypeDefinitionMessage(name) == "Schema \"" \o name \o "\" has no type definition"

\* A schema holding none of the keys type, $ref, allOf, oneOf, anyOf.
HoldsNoTypeKey(schema) ==
  /\ ~Has(schema.type)
  /\ ~Has(schema.ref)
  /\ ~Has(schema.allOf)
  /\ ~Has(schema.oneOf)
  /\ ~Has(schema.anyOf)

\* The same with type and $ref counted as missing when they hold "".
HoldsNoTypeValue(schema) ==
  /\ ~(Has(schema.type) /\ Get(schema.type) # StringType(""))
  /\ ~(Has(schema.ref) /\ Get(schema.ref) # "")
  /\ ~Has(schema.allOf)
  /\ ~Has(schema.oneOf)
  /\ ~Has(schema.anyOf)

\* The names a schema anywhere in the domain goes by.
SchemaNames ==
  {componentSchemas(spec)[i].name : i \in 1..Len(componentSchemas(spec))}
  \cup {"a", "b", "items", "schema", ""}

NoTypeDefinitionCount ==
  Cardinality({k \in 1..Len(warnings) :
                 \E n \in SchemaNames : warnings[k] = NoTypeDefinitionMessage(n)})

\* C28 as first stated: the warning goes to the top-level component schemas
\* holding none of the five keys and to no other schema.
C28_AsStated ==
  Returned =>
    \A i \in 1..Len(componentSchemas(spec)) :
      Count(warnings, NoTypeDefinitionMessage(componentSchemas(spec)[i].name))
        = IF HoldsNoTypeKey(componentSchemas(spec)[i].schema) THEN 1 ELSE 0

(***************************************************************************)
(* C28: a top-level entry of components.schemas draws exactly one warning  *)
(* 'Schema "<name>" has no type definition' when its type and its $ref are *)
(* each missing or empty and it holds none of allOf, oneOf, anyOf, and     *)
(* draws none otherwise; the rule adds no error (the component errors are  *)
(* the type errors of the walk, so such a schema alone leaves isValid      *)
(* true), and no nested schema or response schema draws the warning.       *)
(***************************************************************************)
C28_NoTypeDefinition ==
  Returned =>
    /\ \A i \in 1..Len(componentSchemas(spec)) :
         Count(warnings, NoTypeDefinitionMessage(componentSchemas(spec)[i].name))
           = IF HoldsNoTypeValue(componentSchemas(spec)[i].schema) THEN 1 ELSE 0
    /\ NoTypeDefinitionCount
         = Cardinality({i \in 1..Len(componentSchemas(spec)) :
                          HoldsNoTypeValue(componentSchemas(spec)[i].schema)})
    /\ Cardinality({k \in 1..Len(errors) : errors[k] \in ComponentErrorTexts})
         = SumOf([i \in 1..Len(componentSchemas(spec)) |->
                   BadTypeCount(componentSchemas(spec)[i].schema)])
    /\ (/\ Len(componentSchemas(spec)) = 1
        /\ componentSchemas(spec)[1].schema = Leaf(None)
        /\ RootErrors(spec) = <<>>
        /\ PathErrors(spec) = <<>>)
         => Get(validation).isValid

\* a schema whose type is "" draws the warning and the error for its type
C28_Witness ==
  /\ Returned
  /\ Len(componentSchemas(spec)) = 1
  /\ componentSchemas(spec)[1].schema = Leaf(Some(StringType("")))
  /\ errors = <<GenericTypeMessage("", "components.schemas.User")>>
  /\ Contains(warnings, NoTypeDefinitionMessage("User"))

MissingResponsesMessage(e) == "Missing responses for " \o Subject(e)

\* The operations that print as the same METHOD PATH as e.
PrintedAlike(e) == {f \in OperationPositions : Subject(f) = Subject(e)}

EmptyResponses(e) ==
  Has(OperationAt(e).responses) /\ Get(OperationAt(e).responses) = <<>>

(***************************************************************************)
(* C29: for one operation the error "Missing responses for METHOD PATH"    *)
(* and the warning "No success response defined for METHOD PATH" exclude   *)
(* each other: the two texts for one METHOD PATH occur together at most as *)
(* often as there are operations printing as it, an operation without      *)
(* responses that alone prints as its METHOD PATH has the error once and   *)
(* no such warning, and one with responses present but empty has the       *)
(* warning once and no such error.                                         *)
(***************************************************************************)
C29_ErrorExcludesWarning ==
  Returned =>
    \A e \in OperationPositions :
      /\ Count(Get(validation).errors, MissingResponsesMessage(e))
         + Count(Get(validation).warnings, NoSuccessMessage(e))
           <= Cardinality(PrintedAlike(e))
      /\ (PrintedAlike(e) = {e} /\ LacksResponses(e)) =>
           /\ Count(Get(validation).errors, MissingResponsesMessage(e)) = 1
           /\ ~Contains(Get(validation).warnings, NoSuccessMessage(e))
      /\ (PrintedAlike(e) = {e} /\ EmptyResponses(e)) =>
           /\ Count(Get(validation).warnings, NoSuccessMessage(e)) = 1
           /\ ~Contains(Get(validation).errors, MissingResponsesMessage(e))

\* get without responses and post with responses {} under one path
C29_Witness ==
  /\ Returned
  /\ \E e, f \in OperationPositions :
       /\ Subject(e) = "GET /a" /\ LacksResponses(e)
       /\ Subject(f) = "POST /a" /\ EmptyResponses(f)
  /\ Get(validation).errors = <<"Missing responses for GET /a">>
  /\ Contains(Get(validation).warnings, "No success response defined for POST /a")
  /\ ~Contains(Get(validation).warnings, "No success response defined for GET /a")

\* The method keys of the operations, as the document spells them.
SpelledKeys == {KeyAt(e) : e \in OperationPositions}

MethodsKeys == {Get(stats).methods[i].key : i \in 1..Len(Get(stats).methods)}

(***************************************************************************)
(* C30: in every result of calculateStats the values of methods sum to     *)
(* endpoints, and the keys of methods are the method keys exactly as the   *)
(* document spells them, each once: the filter ignores case and the        *)
(* counting does not, so operations keyed GET and get both count as        *)
(* endpoints and land under two keys of methods.                           *)
(***************************************************************************)
C30_MethodsSumToEndpoints ==
  Has(stats) =>
    /\ SumOf([i \in 1..Len(Get(stats).methods) |-> Get(stats).methods[i].count])
         = Get(stats).endpoints
    /\ MethodsKeys = SpelledKeys
    /\ Len(Get(stats).methods) = Cardinality(SpelledKeys)
    /\ \A e, f \in OperationPositions :
         (KeyAt(e) # KeyAt(f) /\ toLowerCase(KeyAt(e)) = toLowerCase(KeyAt(f))) =>
           \E i, j \in 1..Len(Get(stats).methods) :
             /\ i # j
             /\ Get(stats).methods[i].key = KeyAt(e)
             /\ Get(stats).methods[j].key = KeyAt(f)
             /\ Get(stats).endpoints
                  >= Get(stats).methods[i].count + Get(stats).methods[j].count

\* GET and get under one path: two endpoints, one under each key
C30_Witness ==
  /\ Has(stats)
  /\ Get(stats).endpoints = 2
  /\ Get(stats).methods =
       <<[key |-> KeyGetUpper, count |-> 1], [key |-> KeyGet, count |-> 1]>>

=============================================================================
